---- MODULE Spec2Model ----
(***************************************************************************)
(* A model of the model-assembly engine of GridPath (cetlab-ucsb fork):    *)
(* the operational windows of capacity vintages, the derived sets of the   *)
(* new-build capacity types, the union of the capacity types'              *)
(* operational-period sets, and the dynamic-component registries.          *)
(***************************************************************************)
EXTENDS Integers, Sequences, FiniteSets, TLC

VARIABLES
    pc,                   \* position of the build
    module,               \* the capacity-type module being added or built
    PERIODS,              \* mod.PERIODS, an ordered set of period labels
    period_start_year,    \* mod.period_start_year[p]
    vintage_costs_tab,    \* rows (name, vintage, lifetime) of the vintage-costs file
    VNTS,                 \* MASS_NEW_LIN_VNTS / STOR_CCS_NEW_LIN_VNTS
    lifetime_yrs,         \* mass_new_lin_lifetime_yrs / stor_ccs_new_lin_lifetime_yrs
    OPR_PRDS_BY_VINTAGE,  \* OPR_PRDS_BY_MASS_NEW_LIN_VINTAGE / ..._STOR_CCS_...
    OPR_PRDS,             \* MASS_NEW_LIN_OPR_PRDS / STOR_CCS_NEW_LIN_OPR_PRDS
    VNTS_OPR_IN_PRD,      \* MASS_NEW_LIN_VNTS_OPR_IN_PRD / STOR_CCS_..._OPR_IN_PRD
    Capacity,             \* MassNewLin_Capacity_Tonne / StorCCSNewLin_Mass_Tonne
    build_error,          \* the exception that ended the build, or "none"
    capacity_type_operational_period_sets,               \* d's list of set names
    storage_only_capacity_type_operational_period_sets,  \* d's list of set names
    tx_capacity_type_operational_period_sets,            \* d's list of set names
    projects_tab,                   \* rows (project, capacity_type) of projects.tab
    spec_capacity_tab,              \* project_period_list of gen_ccs_spec
    gen_ccs_new_vintage_costs_tab,  \* rows (project, vintage, lifetime) of gen_ccs_new
    required_capacity_modules,      \* d's list of capacity types to load
    next_module,                    \* index of the module the loader is at
    model_sets,                     \* the sets of the model instance, by name
    PRJ_OPR_PRDS,                   \* the joined relation, as enumerated
    join_error,                     \* the error raised by the join, if any
    ccs_balance_production_components,     \* d's list of expression names
    ccs_balance_consumption_components,    \* d's list of expression names
    carbon_cap_balance_credit_components,  \* d's list of expression names
    load_balance_production_components,    \* d's list of expression names
    model_components,                      \* names of the components declared on m
    Meet_CCS_Constraint,                   \* the constraint as constructed, if it is
    subproblem,                     \* the subproblem being built, solved and exported
    horizon,                        \* mod.horizon[tmp, balancing type of the project]
    boundary,                       \* mod.boundary[balancing type, horizon]
    model_attributes,               \* sets that other operational types put on mod
    tmp_linked_tmp_dict,            \* timepoint -> linked timepoint of the next subproblem
    files,                          \* the files of the scenario directory, by path
    stor_linked_starting_H2_in_storage,  \* the linked param as loaded, by (project, linked tmp)
    Stor_H2_Tracking_Constraint,    \* the constraint as constructed, by (project, tmp)
    headroom_variables,             \* d's dictionary: project -> its list (an object)
    footroom_variables,             \* d's dictionary: project -> its list (an object)
    list_contents,                  \* the contents of the list objects, by object
    projects_tab_ba,                \* the balancing-area columns of projects.tab
    load_zone,                      \* mod.load_zone[g]
    OPERATIONAL_PROJECTS_IN_TIMEPOINT,  \* mod.OPERATIONAL_PROJECTS_IN_TIMEPOINT[tmp]
    Power_Production_in_Zone_MW,    \* the expression as constructed, by (zone, tmp)
    dr_new_min_duration,                  \* param, by project
    dr_new_min_cumulative_new_build_mwh,  \* param, by (project, period)
    dr_new_max_cumulative_new_build_mwh,  \* param, by (project, period)
    dr_new_supply_curve,                  \* slope and intercept, by (project, point)
    DRNew_Power_Capacity_MW,        \* the expression as constructed, by (project, period)
    DRNew_Build_MWh,                \* a solution's value of the variable
    DRNew_Cost,                     \* a solution's value of the variable
    operational_type,               \* mod.operational_type[g]
    PRJ_OPR_TMPS,                   \* mod.PRJ_OPR_TMPS, as enumerated
    Capacity_MW,                    \* value of mod.Capacity_MW[g, period of the tmps]
    Availability_Derate,            \* mod.Availability_Derate[g, tmp], in percent
    Commit_Capacity_H2_Constraint,  \* the constraint as constructed, by (project, tmp)
    Startup_Fuel_Burn_MMBtu,        \* the expression as constructed, by (project, tmp)
    Commit_Capacity_H2_MW           \* a solution's value of the variable

vintageVars == <<pc, module, PERIODS, period_start_year, vintage_costs_tab, VNTS,
                 lifetime_yrs, OPR_PRDS_BY_VINTAGE, OPR_PRDS, VNTS_OPR_IN_PRD,
                 Capacity, build_error>>

registryVars == <<capacity_type_operational_period_sets,
                  storage_only_capacity_type_operational_period_sets,
                  tx_capacity_type_operational_period_sets>>

joinVars == <<projects_tab, spec_capacity_tab, gen_ccs_new_vintage_costs_tab,
              required_capacity_modules, next_module, model_sets, PRJ_OPR_PRDS,
              join_error>>

balanceVars == <<ccs_balance_production_components,
                 ccs_balance_consumption_components,
                 carbon_cap_balance_credit_components,
                 load_balance_production_components,
                 model_components, Meet_CCS_Constraint>>

linkVars == <<subproblem, horizon, boundary, model_attributes,
              tmp_linked_tmp_dict, files, stor_linked_starting_H2_in_storage,
              Stor_H2_Tracking_Constraint>>

roomVars == <<headroom_variables, footroom_variables, list_contents,
              projects_tab_ba>>

powerVars == <<load_zone, OPERATIONAL_PROJECTS_IN_TIMEPOINT,
               Power_Production_in_Zone_MW>>

drNewVars == <<dr_new_min_duration, dr_new_min_cumulative_new_build_mwh,
               dr_new_max_cumulative_new_build_mwh, dr_new_supply_curve,
               DRNew_Power_Capacity_MW, DRNew_Build_MWh, DRNew_Cost>>

operationsVars == <<operational_type, PRJ_OPR_TMPS, Capacity_MW,
                    Availability_Derate, Commit_Capacity_H2_Constraint,
                    Startup_Fuel_Burn_MMBtu, Commit_Capacity_H2_MW>>

vars == <<vintageVars, registryVars, joinVars, balanceVars, linkVars, roomVars,
          powerVars, drNewVars, operationsVars>>

-----------------------------------------------------------------------------
(* Bounds of the model *)

MaxPeriods == 5

StartShift == 2

MaxJoinPeriods == 2

MaxRegistrations == 3

MaxTmps == 3

MaxSubproblems == 2

MaxDrNewPeriods == 2

MaxBuild == 2

MaxOprTmps == 1

MaxCapacity == 1

Names == {"A", "B"}

Lifetimes == {0, 4, 10}

-----------------------------------------------------------------------------
(* Helpers *)

Range(s) == {s[i] : i \in DOMAIN s}

\* the i-th period label: periods are labelled 2020, 2025, ...
Label(i) == 2020 + 5 * (i - 1)

Labels == {Label(i) : i \in 1..MaxPeriods}

\* all the orders in which a collection can enumerate the elements of S
Orderings(S) ==
    {s \in [1..Cardinality(S) -> S] : \A i, j \in 1..Cardinality(S) : i # j => s[i] # s[j]}

NameRank(g) == IF g = "A" THEN 1 ELSE 2

PairLess(a, b) ==
    \/ NameRank(a[1]) < NameRank(b[1])
    \/ (a[1] = b[1] /\ a[2] < b[2])

\* the enumeration of S in lexicographic order (name, then year)
Lexicographic(S) ==
    CHOOSE s \in Orderings(S) : \A i, j \in 1..Cardinality(S) : i < j => PairLess(s[i], s[j])

-----------------------------------------------------------------------------
(* Inputs of a build *)

\* mod.PERIODS with n periods, in the order of periods.tab
PeriodSeq(n) == [i \in 1..n |-> Label(i)]

\* period_start_year: a period starts in the year of its label, except that
\* at most one period q starts StartShift years before its label
StartYears(periods, q) ==
    [p \in Range(periods) |-> IF p = q THEN p - StartShift ELSE p]

\* the rows of a vintage-costs file: one or two rows with distinct keys
VintageCostsRows == Names \X Labels \X Lifetimes

VintageCostsTabs ==
    {<<r1>> : r1 \in {r \in VintageCostsRows : r[1] = "A"}}
    \cup
    {t \in {<<r1, r2>> : r1 \in VintageCostsRows, r2 \in VintageCostsRows} :
        /\ t[1][1] = "A"
        /\ <<t[1][1], t[1][2]>> # <<t[2][1], t[2][2]>>}

-----------------------------------------------------------------------------
(* gridpath/transmission/capacity/capacity_types/mass_new_lin.py *)

\* a vintage is operational in p when v <= p <= v + lifetime
MutantClosedWindow(g, v) ==
    SelectSeq(PERIODS, LAMBDA p : v <= p /\ p <= v + lifetime_yrs[<<g, v>>])

\* the comparison with the end of the lifetime is the wrong way round
MutantFlippedWindow(g, v) ==
    SelectSeq(PERIODS, LAMBDA p : v <= p /\ p >= v + lifetime_yrs[<<g, v>>])

operational_periods_by_new_build_transmission_vintage(g, v) ==
    SelectSeq(PERIODS, LAMBDA p : v <= p /\ p < v + lifetime_yrs[<<g, v>>])

\* the pairs (g, p) of the generator expression under set(...)
OperationalPairs(vnts, by_vintage) ==
    UNION {{<<vnts[i][1], p>> : p \in Range(by_vintage[vnts[i]])} : i \in DOMAIN vnts}

\* the relation holds the (line, vintage) pairs
Mutant_relation_of_vintages == Orderings(Range(VNTS))

\* list(set(...)): the lists the conversion of the set can give
new_build_transmission_operational_periods ==
    Orderings(OperationalPairs(VNTS, OPR_PRDS_BY_VINTAGE))

\* every vintage is taken to be operational in every period
MutantAllVintagesInPeriod(p) == VNTS

new_build_transmission_vintages_operational_in_period(p) ==
    SelectSeq(VNTS, LAMBDA gv : p \in Range(OPR_PRDS_BY_VINTAGE[gv]))

\* the sum takes the vintages of every line
Mutant_capacity_of_all_lines(g, p) == VNTS_OPR_IN_PRD[p]

\* the terms MassNewLin_Build_Tonne[g, v] of the sum, as their indices
mass_new_lin_capacity_rule(g, p) ==
    SelectSeq(VNTS_OPR_IN_PRD[p], LAMBDA gv : gv[1] = g)

\* the terms Build[g, v] * cost[g, v] of the sum, as their indices
tx_capacity_cost_rule(g, p) ==
    SelectSeq(VNTS_OPR_IN_PRD[p], LAMBDA gv : gv[1] = g)

\* add_model_components: the components are declared and the name of the
\* operational-period set is appended to the transmission registry
mass_new_lin_add_model_components ==
    /\ pc = "declare"
    /\ module = "mass_new_lin"
    /\ tx_capacity_type_operational_period_sets' =
          Append(tx_capacity_type_operational_period_sets, "MASS_NEW_LIN_OPR_PRDS")
    /\ pc' = "declared"
    /\ UNCHANGED <<module, PERIODS, period_start_year, vintage_costs_tab, VNTS,
                   lifetime_yrs, OPR_PRDS_BY_VINTAGE, OPR_PRDS, VNTS_OPR_IN_PRD,
                   Capacity, build_error>>
    /\ UNCHANGED <<capacity_type_operational_period_sets,
                   storage_only_capacity_type_operational_period_sets, joinVars>>
    /\ UNCHANGED balanceVars
    /\ UNCHANGED linkVars
    /\ UNCHANGED <<roomVars, powerVars, drNewVars, operationsVars>>

mass_new_lin_load_model_data ==
    /\ pc = "declared"
    /\ module = "mass_new_lin"
    /\ VNTS' = [i \in DOMAIN vintage_costs_tab |->
                  <<vintage_costs_tab[i][1], vintage_costs_tab[i][2]>>]
    /\ lifetime_yrs' = [gv \in {<<r[1], r[2]>> : r \in Range(vintage_costs_tab)} |->
                          (CHOOSE r \in Range(vintage_costs_tab) :
                              <<r[1], r[2]>> = gv)[3]]
    /\ pc' = "opr_by_vintage"
    /\ UNCHANGED <<module, PERIODS, period_start_year, vintage_costs_tab,
                   OPR_PRDS_BY_VINTAGE, OPR_PRDS, VNTS_OPR_IN_PRD, Capacity,
                   build_error>>
    /\ UNCHANGED <<registryVars, joinVars>>
    /\ UNCHANGED balanceVars
    /\ UNCHANGED linkVars
    /\ UNCHANGED <<roomVars, powerVars, drNewVars, operationsVars>>

Construct_OPR_PRDS_BY_MASS_NEW_LIN_VINTAGE ==
    /\ pc = "opr_by_vintage"
    /\ module = "mass_new_lin"
    /\ OPR_PRDS_BY_VINTAGE' =
          [gv \in Range(VNTS) |->
              operational_periods_by_new_build_transmission_vintage(gv[1], gv[2])]
    /\ pc' = "opr_prds"
    /\ UNCHANGED <<module, PERIODS, period_start_year, vintage_costs_tab, VNTS,
                   lifetime_yrs, OPR_PRDS, VNTS_OPR_IN_PRD, Capacity, build_error>>
    /\ UNCHANGED <<registryVars, joinVars>>
    /\ UNCHANGED balanceVars
    /\ UNCHANGED linkVars
    /\ UNCHANGED <<roomVars, powerVars, drNewVars, operationsVars>>

Construct_MASS_NEW_LIN_OPR_PRDS ==
    /\ pc = "opr_prds"
    /\ module = "mass_new_lin"
    /\ OPR_PRDS' \in new_build_transmission_operational_periods
    /\ pc' = "vnts_in_prd"
    /\ UNCHANGED <<module, PERIODS, period_start_year, vintage_costs_tab, VNTS,
                   lifetime_yrs, OPR_PRDS_BY_VINTAGE, VNTS_OPR_IN_PRD, Capacity,
                   build_error>>
    /\ UNCHANGED <<registryVars, joinVars>>
    /\ UNCHANGED balanceVars
    /\ UNCHANGED linkVars
    /\ UNCHANGED <<roomVars, powerVars, drNewVars, operationsVars>>

Construct_MASS_NEW_LIN_VNTS_OPR_IN_PRD ==
    /\ pc = "vnts_in_prd"
    /\ module = "mass_new_lin"
    /\ VNTS_OPR_IN_PRD' =
          [p \in Range(PERIODS) |->
              new_build_transmission_vintages_operational_in_period(p)]
    /\ pc' = "capacity"
    /\ UNCHANGED <<module, PERIODS, period_start_year, vintage_costs_tab, VNTS,
                   lifetime_yrs, OPR_PRDS_BY_VINTAGE, OPR_PRDS, Capacity,
                   build_error>>
    /\ UNCHANGED <<registryVars, joinVars>>
    /\ UNCHANGED balanceVars
    /\ UNCHANGED linkVars
    /\ UNCHANGED <<roomVars, powerVars, drNewVars, operationsVars>>

Construct_MassNewLin_Capacity_Tonne ==
    /\ pc = "capacity"
    /\ module = "mass_new_lin"
    /\ Capacity' = [gp \in Range(OPR_PRDS) |->
                      mass_new_lin_capacity_rule(gp[1], gp[2])]
    /\ pc' = "built"
    /\ UNCHANGED <<module, PERIODS, period_start_year, vintage_costs_tab, VNTS,
                   lifetime_yrs, OPR_PRDS_BY_VINTAGE, OPR_PRDS, VNTS_OPR_IN_PRD,
                   build_error>>
    /\ UNCHANGED <<registryVars, joinVars>>
    /\ UNCHANGED balanceVars
    /\ UNCHANGED linkVars
    /\ UNCHANGED <<roomVars, powerVars, drNewVars, operationsVars>>

-----------------------------------------------------------------------------
(* gridpath/project/capacity/capacity_types/common_methods.py *)

operational_periods_by_project_vintage(periods, start_year, vintage, lifetime) ==
    SelectSeq(periods, LAMBDA p : /\ start_year[vintage] <= start_year[p]
                                  /\ start_year[p] < start_year[vintage] + lifetime)

project_operational_periods(project_vintages_set, by_vintage) ==
    Lexicographic(OperationalPairs(project_vintages_set, by_vintage))

project_vintages_operational_in_period(project_vintage_set, by_vintage, period) ==
    SelectSeq(project_vintage_set, LAMBDA gv : period \in Range(by_vintage[gv]))

-----------------------------------------------------------------------------
(* gridpath/project/capacity/capacity_types/stor_ccs_new_lin.py *)

operational_periods_by_stor_ccs_vintage(prj, v) ==
    operational_periods_by_project_vintage(
        PERIODS, period_start_year, v, lifetime_yrs[<<prj, v>>])

stor_ccs_new_lin_operational_periods ==
    project_operational_periods(VNTS, OPR_PRDS_BY_VINTAGE)

stor_ccs_new_lin_vintages_operational_in_period(p) ==
    project_vintages_operational_in_period(VNTS, OPR_PRDS_BY_VINTAGE, p)

\* the terms StorCCSNewLin_Build_Tonne[g, v] of the sum, as their indices
mass_rule(g, p) ==
    SelectSeq(VNTS_OPR_IN_PRD[p], LAMBDA gv : gv[1] = g)

\* the terms Build[g, v] * cost[g, v] of the sum, as their indices
capacity_cost_rule(g, p) ==
    SelectSeq(VNTS_OPR_IN_PRD[p], LAMBDA gv : gv[1] = g)

\* the name of the set of vintages is registered in place of the set of
\* operational periods
Mutant_stor_ccs_registers_vintages ==
    /\ pc = "declare"
    /\ module = "stor_ccs_new_lin"
    /\ capacity_type_operational_period_sets' =
          Append(capacity_type_operational_period_sets, "STOR_CCS_NEW_LIN_VNTS")
    /\ pc' = "declared"
    /\ UNCHANGED <<module, PERIODS, period_start_year, vintage_costs_tab, VNTS,
                   lifetime_yrs, OPR_PRDS_BY_VINTAGE, OPR_PRDS, VNTS_OPR_IN_PRD,
                   Capacity, build_error>>
    /\ UNCHANGED <<storage_only_capacity_type_operational_period_sets,
                   tx_capacity_type_operational_period_sets, joinVars>>
    /\ UNCHANGED balanceVars
    /\ UNCHANGED linkVars
    /\ UNCHANGED <<roomVars, powerVars, drNewVars, operationsVars>>

\* add_model_components: the components are declared and the name of the
\* operational-period set is appended to the capacity-type registry
stor_ccs_new_lin_add_model_components ==
    /\ pc = "declare"
    /\ module = "stor_ccs_new_lin"
    /\ capacity_type_operational_period_sets' =
          Append(capacity_type_operational_period_sets, "STOR_CCS_NEW_LIN_OPR_PRDS")
    /\ pc' = "declared"
    /\ UNCHANGED <<module, PERIODS, period_start_year, vintage_costs_tab, VNTS,
                   lifetime_yrs, OPR_PRDS_BY_VINTAGE, OPR_PRDS, VNTS_OPR_IN_PRD,
                   Capacity, build_error>>
    /\ UNCHANGED <<storage_only_capacity_type_operational_period_sets,
                   tx_capacity_type_operational_period_sets, joinVars>>
    /\ UNCHANGED balanceVars
    /\ UNCHANGED linkVars
    /\ UNCHANGED <<roomVars, powerVars, drNewVars, operationsVars>>

\* STOR_CCS_NEW_LIN_VNTS is declared within PROJECTS * PERIODS: a row whose
\* vintage is no period is refused when the set is loaded
stor_ccs_new_lin_load_model_data ==
    /\ pc = "declared"
    /\ module = "stor_ccs_new_lin"
    /\ IF \A r \in Range(vintage_costs_tab) : r[2] \in Range(PERIODS)
       THEN /\ VNTS' = [i \in DOMAIN vintage_costs_tab |->
                          <<vintage_costs_tab[i][1], vintage_costs_tab[i][2]>>]
            /\ lifetime_yrs' =
                  [gv \in {<<r[1], r[2]>> : r \in Range(vintage_costs_tab)} |->
                      (CHOOSE r \in Range(vintage_costs_tab) :
                          <<r[1], r[2]>> = gv)[3]]
            /\ pc' = "opr_by_vintage"
            /\ UNCHANGED build_error
       ELSE /\ build_error' = "ValueError"
            /\ pc' = "failed"
            /\ UNCHANGED <<VNTS, lifetime_yrs>>
    /\ UNCHANGED <<module, PERIODS, period_start_year, vintage_costs_tab,
                   OPR_PRDS_BY_VINTAGE, OPR_PRDS, VNTS_OPR_IN_PRD, Capacity>>
    /\ UNCHANGED <<registryVars, joinVars>>
    /\ UNCHANGED balanceVars
    /\ UNCHANGED linkVars
    /\ UNCHANGED <<roomVars, powerVars, drNewVars, operationsVars>>

Construct_OPR_PRDS_BY_STOR_CCS_NEW_LIN_VINTAGE ==
    /\ pc = "opr_by_vintage"
    /\ module = "stor_ccs_new_lin"
    /\ OPR_PRDS_BY_VINTAGE' =
          [gv \in Range(VNTS) |-> operational_periods_by_stor_ccs_vintage(gv[1], gv[2])]
    /\ pc' = "opr_prds"
    /\ UNCHANGED <<module, PERIODS, period_start_year, vintage_costs_tab, VNTS,
                   lifetime_yrs, OPR_PRDS, VNTS_OPR_IN_PRD, Capacity, build_error>>
    /\ UNCHANGED <<registryVars, joinVars>>
    /\ UNCHANGED balanceVars
    /\ UNCHANGED linkVars
    /\ UNCHANGED <<roomVars, powerVars, drNewVars, operationsVars>>

Construct_STOR_CCS_NEW_LIN_OPR_PRDS ==
    /\ pc = "opr_prds"
    /\ module = "stor_ccs_new_lin"
    /\ OPR_PRDS' = stor_ccs_new_lin_operational_periods
    /\ pc' = "vnts_in_prd"
    /\ UNCHANGED <<module, PERIODS, period_start_year, vintage_costs_tab, VNTS,
                   lifetime_yrs, OPR_PRDS_BY_VINTAGE, VNTS_OPR_IN_PRD, Capacity,
                   build_error>>
    /\ UNCHANGED <<registryVars, joinVars>>
    /\ UNCHANGED balanceVars
    /\ UNCHANGED linkVars
    /\ UNCHANGED <<roomVars, powerVars, drNewVars, operationsVars>>

Construct_STOR_CCS_NEW_LIN_VNTS_OPR_IN_PRD ==
    /\ pc = "vnts_in_prd"
    /\ module = "stor_ccs_new_lin"
    /\ VNTS_OPR_IN_PRD' =
          [p \in Range(PERIODS) |-> stor_ccs_new_lin_vintages_operational_in_period(p)]
    /\ pc' = "capacity"
    /\ UNCHANGED <<module, PERIODS, period_start_year, vintage_costs_tab, VNTS,
                   lifetime_yrs, OPR_PRDS_BY_VINTAGE, OPR_PRDS, Capacity,
                   build_error>>
    /\ UNCHANGED <<registryVars, joinVars>>
    /\ UNCHANGED balanceVars
    /\ UNCHANGED linkVars
    /\ UNCHANGED <<roomVars, powerVars, drNewVars, operationsVars>>

Construct_StorCCSNewLin_Mass_Tonne ==
    /\ pc = "capacity"
    /\ module = "stor_ccs_new_lin"
    /\ Capacity' = [gp \in Range(OPR_PRDS) |-> mass_rule(gp[1], gp[2])]
    /\ pc' = "built"
    /\ UNCHANGED <<module, PERIODS, period_start_year, vintage_costs_tab, VNTS,
                   lifetime_yrs, OPR_PRDS_BY_VINTAGE, OPR_PRDS, VNTS_OPR_IN_PRD,
                   build_error>>
    /\ UNCHANGED <<registryVars, joinVars>>
    /\ UNCHANGED balanceVars
    /\ UNCHANGED linkVars
    /\ UNCHANGED <<roomVars, powerVars, drNewVars, operationsVars>>

-----------------------------------------------------------------------------
(* The build of one new-build capacity type *)

InitVintage ==
    \E n \in 1..MaxPeriods, q \in Labels \cup {0}, tab \in VintageCostsTabs,
       m \in {"mass_new_lin", "stor_ccs_new_lin"} :
        /\ q \in Range(PeriodSeq(n)) \cup {0}
        /\ PERIODS = PeriodSeq(n)
        /\ period_start_year = StartYears(PeriodSeq(n), q)
        /\ vintage_costs_tab = tab
        /\ module = m
        /\ pc = "declare"
        /\ VNTS = <<>>
        /\ lifetime_yrs = <<>>
        /\ OPR_PRDS_BY_VINTAGE = <<>>
        /\ OPR_PRDS = <<>>
        /\ VNTS_OPR_IN_PRD = <<>>
        /\ Capacity = <<>>
        /\ build_error = "none"
        /\ capacity_type_operational_period_sets = <<>>
        /\ storage_only_capacity_type_operational_period_sets = <<>>
        /\ tx_capacity_type_operational_period_sets = <<>>
        /\ projects_tab = <<>>
        /\ spec_capacity_tab = {}
        /\ gen_ccs_new_vintage_costs_tab = <<>>
        /\ required_capacity_modules = <<>>
        /\ next_module = 0
        /\ model_sets = <<>>
        /\ PRJ_OPR_PRDS = <<>>
        /\ join_error = [type |-> "none"]
        /\ ccs_balance_production_components = <<>>
        /\ ccs_balance_consumption_components = <<>>
        /\ carbon_cap_balance_credit_components = <<>>
        /\ load_balance_production_components = <<>>
        /\ model_components = {}
        /\ Meet_CCS_Constraint = <<>>
        /\ subproblem = 0
        /\ horizon = <<>>
        /\ boundary = <<>>
        /\ model_attributes = {}
        /\ tmp_linked_tmp_dict = <<>>
        /\ files = <<>>
        /\ stor_linked_starting_H2_in_storage = <<>>
        /\ Stor_H2_Tracking_Constraint = <<>>
        /\ headroom_variables = <<>>
        /\ footroom_variables = <<>>
        /\ list_contents = <<>>
        /\ projects_tab_ba = <<>>
        /\ load_zone = <<>>
        /\ OPERATIONAL_PROJECTS_IN_TIMEPOINT = <<>>
        /\ Power_Production_in_Zone_MW = <<>>
        /\ dr_new_min_duration = <<>>
        /\ dr_new_min_cumulative_new_build_mwh = <<>>
        /\ dr_new_max_cumulative_new_build_mwh = <<>>
        /\ dr_new_supply_curve = <<>>
        /\ DRNew_Power_Capacity_MW = <<>>
        /\ DRNew_Build_MWh = <<>>
        /\ DRNew_Cost = <<>>
        /\ operational_type = <<>>
        /\ PRJ_OPR_TMPS = <<>>
        /\ Capacity_MW = <<>>
        /\ Availability_Derate = <<>>
        /\ Commit_Capacity_H2_Constraint = <<>>
        /\ Startup_Fuel_Burn_MMBtu = <<>>
        /\ Commit_Capacity_H2_MW = <<>>

NextVintage ==
    \/ mass_new_lin_add_model_components
    \/ stor_ccs_new_lin_add_model_components
    \/ mass_new_lin_load_model_data
    \/ Construct_OPR_PRDS_BY_MASS_NEW_LIN_VINTAGE
    \/ Construct_MASS_NEW_LIN_OPR_PRDS
    \/ Construct_MASS_NEW_LIN_VNTS_OPR_IN_PRD
    \/ Construct_MassNewLin_Capacity_Tonne
    \/ stor_ccs_new_lin_load_model_data
    \/ Construct_OPR_PRDS_BY_STOR_CCS_NEW_LIN_VINTAGE
    \/ Construct_STOR_CCS_NEW_LIN_OPR_PRDS
    \/ Construct_STOR_CCS_NEW_LIN_VNTS_OPR_IN_PRD
    \/ Construct_StorCCSNewLin_Mass_Tonne

SpecVintage == InitVintage /\ [][NextVintage]_vars

-----------------------------------------------------------------------------
(* gridpath/project/__init__.py *)

CapacityTypes == {"dr_new", "gen_ccs_spec", "stor_ccs_new_lin", "gen_ccs_new"}

PROJECTS == {projects_tab[i][1] : i \in DOMAIN projects_tab}

\* pandas unique(): the values of a column in the order of first appearance
RECURSIVE Unique(_)
Unique(column) ==
    IF column = <<>> THEN <<>>
    ELSE LET front == Unique(SubSeq(column, 1, Len(column) - 1))
             last == column[Len(column)]
         IN IF last \in Range(front) THEN front ELSE Append(front, last)

\* the project column of projects.tab
ProjectColumn == [i \in DOMAIN projects_tab |-> projects_tab[i][1]]

\* {r: [] for r in column}: a new list object for every row; a project that
\* comes again keeps the list of its last row
FreshLists(column, used) ==
    [r \in Range(column) |->
        used + CHOOSE i \in DOMAIN column :
                  /\ column[i] = r
                  /\ \A j \in DOMAIN column : column[j] = r => j <= i]

\* the dictionary is made with one list object for all its keys
Mutant_determine_with_one_list ==
    /\ pc = "start"
    /\ required_capacity_modules' =
          Unique([i \in DOMAIN projects_tab |-> projects_tab[i][2]])
    /\ next_module' = 1
    /\ module' = required_capacity_modules'[1]
    /\ pc' = "declare"
    /\ headroom_variables' = [r \in Range(ProjectColumn) |-> 1]
    /\ footroom_variables' = [r \in Range(ProjectColumn) |-> 2]
    /\ list_contents' = [object \in 1..(2 * Len(ProjectColumn)) |-> <<>>]
    /\ UNCHANGED <<PERIODS, period_start_year, vintage_costs_tab, VNTS,
                   lifetime_yrs, OPR_PRDS_BY_VINTAGE, OPR_PRDS, VNTS_OPR_IN_PRD,
                   Capacity, build_error, registryVars>>
    /\ UNCHANGED <<projects_tab, spec_capacity_tab, gen_ccs_new_vintage_costs_tab,
                   model_sets, PRJ_OPR_PRDS, join_error>>
    /\ UNCHANGED balanceVars
    /\ UNCHANGED linkVars
    /\ UNCHANGED <<projects_tab_ba, powerVars, drNewVars, operationsVars>>

determine_dynamic_components ==
    /\ pc = "start"
    /\ required_capacity_modules' =
          Unique([i \in DOMAIN projects_tab |-> projects_tab[i][2]])
    /\ next_module' = 1
    /\ module' = required_capacity_modules'[1]
    /\ pc' = "declare"
    /\ UNCHANGED <<PERIODS, period_start_year, vintage_costs_tab, VNTS,
                   lifetime_yrs, OPR_PRDS_BY_VINTAGE, OPR_PRDS, VNTS_OPR_IN_PRD,
                   Capacity, build_error, registryVars>>
    /\ headroom_variables' = FreshLists(ProjectColumn, 0)
    /\ footroom_variables' = FreshLists(ProjectColumn, Len(ProjectColumn))
    /\ list_contents' = [object \in 1..(2 * Len(ProjectColumn)) |-> <<>>]
    /\ UNCHANGED <<projects_tab, spec_capacity_tab, gen_ccs_new_vintage_costs_tab,
                   model_sets, PRJ_OPR_PRDS, join_error>>
    /\ UNCHANGED balanceVars
    /\ UNCHANGED linkVars
    /\ UNCHANGED <<projects_tab_ba, powerVars, drNewVars, operationsVars>>

-----------------------------------------------------------------------------
(* gridpath/project/operations/reserves/lf_reserves_down.py *)

\* every project with a balancing area in the column of the reserve gets
\* the name of the provision variable appended to its list in the dictionary
generic_determine_dynamic_components(dictionary, ba_column_name, reserve_provision_variable_name) ==
    [object \in DOMAIN list_contents |->
        LET with_ba == {i \in DOMAIN ProjectColumn :
                           /\ projects_tab_ba[ba_column_name][ProjectColumn[i]] # "."
                           /\ dictionary[ProjectColumn[i]] = object}
        IN list_contents[object] \o
              [k \in 1..Cardinality(with_ba) |-> reserve_provision_variable_name]]

lf_reserves_up_determine_dynamic_components ==
    /\ pc = "declare"
    /\ list_contents' =
          generic_determine_dynamic_components(
              headroom_variables, "lf_reserves_up_ba", "Provide_LF_Reserves_Up_MW")
    /\ pc' = "lf_reserves_up"
    /\ UNCHANGED <<module, PERIODS, period_start_year, vintage_costs_tab, VNTS,
                   lifetime_yrs, OPR_PRDS_BY_VINTAGE, OPR_PRDS, VNTS_OPR_IN_PRD,
                   Capacity, build_error, registryVars, joinVars>>
    /\ UNCHANGED balanceVars
    /\ UNCHANGED linkVars
    /\ UNCHANGED <<headroom_variables, footroom_variables, projects_tab_ba,
                   powerVars, drNewVars, operationsVars>>

lf_reserves_down_determine_dynamic_components ==
    /\ pc = "lf_reserves_up"
    /\ list_contents' =
          generic_determine_dynamic_components(
              footroom_variables, "lf_reserves_down_ba", "Provide_LF_Reserves_Down_MW")
    /\ pc' = "lf_reserves_down"
    /\ UNCHANGED <<module, PERIODS, period_start_year, vintage_costs_tab, VNTS,
                   lifetime_yrs, OPR_PRDS_BY_VINTAGE, OPR_PRDS, VNTS_OPR_IN_PRD,
                   Capacity, build_error, registryVars, joinVars>>
    /\ UNCHANGED balanceVars
    /\ UNCHANGED linkVars
    /\ UNCHANGED <<headroom_variables, footroom_variables, projects_tab_ba,
                   powerVars, drNewVars, operationsVars>>

-----------------------------------------------------------------------------
(* gridpath/project/capacity/capacity_types/dr_new.py *)

\* determine_projects: the projects of projects.tab whose type is dr_new
DR_NEW == {projects_tab[i][1] : i \in {j \in DOMAIN projects_tab :
                                          projects_tab[j][2] = "dr_new"}}

DR_NEW_OPR_PRDS == DR_NEW \X Range(PERIODS)

\* the set is registered with the storage-only sets alone
Mutant_dr_new_registers_storage_only ==
    /\ pc = "declare"
    /\ module = "dr_new"
    /\ storage_only_capacity_type_operational_period_sets' =
          Append(storage_only_capacity_type_operational_period_sets, "DR_NEW_OPR_PRDS")
    /\ pc' = "declared"
    /\ UNCHANGED <<module, PERIODS, period_start_year, vintage_costs_tab, VNTS,
                   lifetime_yrs, OPR_PRDS_BY_VINTAGE, OPR_PRDS, VNTS_OPR_IN_PRD,
                   Capacity, build_error>>
    /\ UNCHANGED <<capacity_type_operational_period_sets,
                   tx_capacity_type_operational_period_sets, joinVars>>
    /\ UNCHANGED balanceVars
    /\ UNCHANGED linkVars
    /\ UNCHANGED <<roomVars, powerVars, drNewVars, operationsVars>>

dr_new_add_module_specific_components ==
    /\ pc = "declare"
    /\ module = "dr_new"
    /\ capacity_type_operational_period_sets' =
          Append(capacity_type_operational_period_sets, "DR_NEW_OPR_PRDS")
    /\ storage_only_capacity_type_operational_period_sets' =
          Append(storage_only_capacity_type_operational_period_sets, "DR_NEW_OPR_PRDS")
    /\ pc' = "declared"
    /\ UNCHANGED <<module, PERIODS, period_start_year, vintage_costs_tab, VNTS,
                   lifetime_yrs, OPR_PRDS_BY_VINTAGE, OPR_PRDS, VNTS_OPR_IN_PRD,
                   Capacity, build_error>>
    /\ UNCHANGED <<tx_capacity_type_operational_period_sets, joinVars>>
    /\ UNCHANGED balanceVars
    /\ UNCHANGED linkVars
    /\ UNCHANGED <<roomVars, powerVars, drNewVars, operationsVars>>

\* the sum of the numbers of a sequence
RECURSIVE SumSeq(_)
SumSeq(seq) == IF seq = <<>> THEN 0 ELSE seq[1] + SumSeq(Tail(seq))

\* the terms DRNew_Build_MWh[g, prev_p] of the sum
dr_new_energy_capacity_rule(g, p) ==
    LET prev == SelectSeq(PERIODS, LAMBDA prev_p : prev_p <= p)
    IN [i \in DOMAIN prev |-> <<"DRNew_Build_MWh", g, prev[i]>>]

\* the quotient, as its numerator and its denominator
dr_new_power_capacity_rule(g, p) ==
    [numerator |-> <<<<"DRNew_Build_MWh", g, p>>>>,
     denominator |-> dr_new_min_duration[g]]

\* the value of a sum of DRNew_Build_MWh terms under a build
DRNewValue(terms, build) ==
    SumSeq([i \in DOMAIN terms |-> build[<<terms[i][2], terms[i][3]>>]])

\* cost_rule: what DRNew_Cost[project, period] is at least, for a point
cost_rule(project, point, period, build) ==
    dr_new_supply_curve[<<project, point>>].slope
        * DRNewValue(dr_new_energy_capacity_rule(project, period), build)
    + dr_new_supply_curve[<<project, point>>].intercept

\* hours of minimum duration, a non-negative number
Durations == {0, 1, 2}

\* load_module_specific_data: the duration comes from projects.tab, the
\* supply curve and the cumulative potentials from their files
dr_new_load_module_specific_data ==
    /\ pc = "declared"
    /\ module = "dr_new"
    /\ dr_new_min_duration' \in [DR_NEW -> Durations]
    /\ dr_new_supply_curve' \in
          [DR_NEW \X {1} -> [slope : {0, 1}, intercept : {0}]]
    /\ dr_new_min_cumulative_new_build_mwh' \in [DR_NEW_OPR_PRDS -> {0, 1}]
    /\ dr_new_max_cumulative_new_build_mwh' \in [DR_NEW_OPR_PRDS -> {1, MaxBuild}]
    /\ pc' = "construct"
    /\ UNCHANGED <<module, PERIODS, period_start_year, vintage_costs_tab, VNTS,
                   lifetime_yrs, OPR_PRDS_BY_VINTAGE, OPR_PRDS, VNTS_OPR_IN_PRD,
                   Capacity, build_error, registryVars, joinVars>>
    /\ UNCHANGED balanceVars
    /\ UNCHANGED linkVars
    /\ UNCHANGED <<roomVars, powerVars, operationsVars, DRNew_Power_Capacity_MW,
                   DRNew_Build_MWh, DRNew_Cost>>

\* the expressions are constructed; a quotient by a duration of 0 raises
Construct_DRNew_Power_Capacity_MW ==
    /\ pc = "construct"
    /\ module = "dr_new"
    /\ IF \E g \in DR_NEW : dr_new_min_duration[g] = 0
       THEN /\ build_error' = "ZeroDivisionError"
            /\ pc' = "failed"
            /\ UNCHANGED DRNew_Power_Capacity_MW
       ELSE /\ DRNew_Power_Capacity_MW' =
                  [gp \in DR_NEW_OPR_PRDS |-> dr_new_power_capacity_rule(gp[1], gp[2])]
            /\ pc' = "solve"
            /\ UNCHANGED build_error
    /\ UNCHANGED <<module, PERIODS, period_start_year, vintage_costs_tab, VNTS,
                   lifetime_yrs, OPR_PRDS_BY_VINTAGE, OPR_PRDS, VNTS_OPR_IN_PRD,
                   Capacity, registryVars, joinVars>>
    /\ UNCHANGED balanceVars
    /\ UNCHANGED linkVars
    /\ UNCHANGED <<roomVars, powerVars, operationsVars, dr_new_min_duration,
                   dr_new_min_cumulative_new_build_mwh,
                   dr_new_max_cumulative_new_build_mwh, dr_new_supply_curve,
                   DRNew_Build_MWh, DRNew_Cost>>

\* the values of the variables hold the constraints of the module: each is
\* non-negative, and DRNew_Cost_Constraint holds for every point and period
DRNewFeasible(build, cost) ==
    \A gp \in DR_NEW_OPR_PRDS :
        cost[gp] >= cost_rule(gp[1], 1, gp[2], build)

\* a solution of the model: any values that hold the constraints
dr_new_solve ==
    /\ pc = "solve"
    /\ module = "dr_new"
    /\ DRNew_Build_MWh' \in [DR_NEW_OPR_PRDS -> 0..MaxBuild]
    /\ \E more \in {0, 1} :
          DRNew_Cost' = [gp \in DR_NEW_OPR_PRDS |->
                            cost_rule(gp[1], 1, gp[2], DRNew_Build_MWh') + more]
    /\ DRNewFeasible(DRNew_Build_MWh', DRNew_Cost')
    /\ pc' = "solved"
    /\ UNCHANGED <<module, PERIODS, period_start_year, vintage_costs_tab, VNTS,
                   lifetime_yrs, OPR_PRDS_BY_VINTAGE, OPR_PRDS, VNTS_OPR_IN_PRD,
                   Capacity, build_error, registryVars, joinVars>>
    /\ UNCHANGED balanceVars
    /\ UNCHANGED linkVars
    /\ UNCHANGED <<roomVars, powerVars, operationsVars, dr_new_min_duration,
                   dr_new_min_cumulative_new_build_mwh,
                   dr_new_max_cumulative_new_build_mwh, dr_new_supply_curve,
                   DRNew_Power_Capacity_MW>>

-----------------------------------------------------------------------------
(* gridpath/project/capacity/capacity_types/gen_ccs_spec.py *)

\* the rows of the specified-capacity file whose project has the capacity type
spec_determine_inputs(capacity_type) ==
    {r \in spec_capacity_tab :
        \E i \in DOMAIN projects_tab : projects_tab[i] = <<r[1], capacity_type>>}

\* load_model_data: the set is the project_period_list of the inputs
GEN_CCS_SPEC_OPR_PRDS == spec_determine_inputs("gen_ccs_spec")

gen_ccs_spec_add_model_components ==
    /\ pc = "declare"
    /\ module = "gen_ccs_spec"
    /\ capacity_type_operational_period_sets' =
          Append(capacity_type_operational_period_sets, "GEN_CCS_SPEC_OPR_PRDS")
    /\ pc' = "declared"
    /\ UNCHANGED <<module, PERIODS, period_start_year, vintage_costs_tab, VNTS,
                   lifetime_yrs, OPR_PRDS_BY_VINTAGE, OPR_PRDS, VNTS_OPR_IN_PRD,
                   Capacity, build_error>>
    /\ UNCHANGED <<storage_only_capacity_type_operational_period_sets,
                   tx_capacity_type_operational_period_sets, joinVars>>
    /\ UNCHANGED balanceVars
    /\ UNCHANGED linkVars
    /\ UNCHANGED <<roomVars, powerVars, drNewVars, operationsVars>>

-----------------------------------------------------------------------------
(* gridpath/project/capacity/capacity_types/gen_ccs_new.py *)

\* load_model_data: the index of new_build_generator_ccs_vintage_costs.tab
GEN_CCS_NEW_VNTS ==
    {<<r[1], r[2]>> : r \in Range(gen_ccs_new_vintage_costs_tab)}

\* the gen_ccs_new set is left out of the registry
Mutant_gen_ccs_new_registers_nothing ==
    /\ pc = "declare"
    /\ module = "gen_ccs_new"
    /\ pc' = "declared"
    /\ UNCHANGED <<module, PERIODS, period_start_year, vintage_costs_tab, VNTS,
                   lifetime_yrs, OPR_PRDS_BY_VINTAGE, OPR_PRDS, VNTS_OPR_IN_PRD,
                   Capacity, build_error, registryVars, joinVars>>
    /\ UNCHANGED balanceVars
    /\ UNCHANGED linkVars
    /\ UNCHANGED <<roomVars, powerVars, drNewVars, operationsVars>>

gen_ccs_new_add_model_components ==
    /\ pc = "declare"
    /\ module = "gen_ccs_new"
    /\ capacity_type_operational_period_sets' =
          Append(capacity_type_operational_period_sets, "GEN_CCS_NEW_VNTS")
    /\ pc' = "declared"
    /\ UNCHANGED <<module, PERIODS, period_start_year, vintage_costs_tab, VNTS,
                   lifetime_yrs, OPR_PRDS_BY_VINTAGE, OPR_PRDS, VNTS_OPR_IN_PRD,
                   Capacity, build_error>>
    /\ UNCHANGED <<storage_only_capacity_type_operational_period_sets,
                   tx_capacity_type_operational_period_sets, joinVars>>
    /\ UNCHANGED balanceVars
    /\ UNCHANGED linkVars
    /\ UNCHANGED <<roomVars, powerVars, drNewVars, operationsVars>>

-----------------------------------------------------------------------------
(* The sets of stor_ccs_new_lin, from its vintage-costs file *)

STOR_CCS_NEW_LIN_VNTS_of(tab) == [i \in DOMAIN tab |-> <<tab[i][1], tab[i][2]>>]

STOR_CCS_NEW_LIN_OPR_PRDS_of(tab) ==
    LET vnts == STOR_CCS_NEW_LIN_VNTS_of(tab)
        by_vintage ==
            [gv \in Range(vnts) |->
                operational_periods_by_project_vintage(
                    PERIODS, period_start_year, gv[2],
                    (CHOOSE r \in Range(tab) : <<r[1], r[2]>> = gv)[3])]
    IN project_operational_periods(vnts, by_vintage)

-----------------------------------------------------------------------------
(* The loader of the capacity types and the join of their sets *)

\* every required capacity-type module is added in the order of the list
load_next_capacity_type_module ==
    /\ pc = "declared"
    /\ IF next_module < Len(required_capacity_modules)
       THEN /\ next_module' = next_module + 1
            /\ module' = required_capacity_modules[next_module + 1]
            /\ pc' = "declare"
       ELSE /\ pc' = "load"
            /\ UNCHANGED <<next_module, module>>
    /\ UNCHANGED <<PERIODS, period_start_year, vintage_costs_tab, VNTS,
                   lifetime_yrs, OPR_PRDS_BY_VINTAGE, OPR_PRDS, VNTS_OPR_IN_PRD,
                   Capacity, build_error, registryVars>>
    /\ UNCHANGED <<projects_tab, spec_capacity_tab, gen_ccs_new_vintage_costs_tab,
                   required_capacity_modules, model_sets, PRJ_OPR_PRDS, join_error>>
    /\ UNCHANGED balanceVars
    /\ UNCHANGED linkVars
    /\ UNCHANGED <<roomVars, powerVars, drNewVars, operationsVars>>

SetNames == {"DR_NEW_OPR_PRDS", "GEN_CCS_SPEC_OPR_PRDS", "STOR_CCS_NEW_LIN_VNTS",
             "STOR_CCS_NEW_LIN_OPR_PRDS", "GEN_CCS_NEW_VNTS"}

\* the data of the required modules are loaded and their sets constructed;
\* a set declared within PROJECTS * PERIODS rejects any other element
load_capacity_type_data ==
    /\ pc = "load"
    /\ \A r \in Range(vintage_costs_tab) \cup Range(gen_ccs_new_vintage_costs_tab) :
          r[1] \in PROJECTS /\ r[2] \in Range(PERIODS)
    /\ model_sets' =
          [name \in SetNames |->
              CASE name = "DR_NEW_OPR_PRDS" -> DR_NEW_OPR_PRDS
                [] name = "GEN_CCS_SPEC_OPR_PRDS" -> GEN_CCS_SPEC_OPR_PRDS
                [] name = "STOR_CCS_NEW_LIN_VNTS" ->
                      Range(STOR_CCS_NEW_LIN_VNTS_of(vintage_costs_tab))
                [] name = "STOR_CCS_NEW_LIN_OPR_PRDS" ->
                      Range(STOR_CCS_NEW_LIN_OPR_PRDS_of(vintage_costs_tab))
                [] name = "GEN_CCS_NEW_VNTS" -> GEN_CCS_NEW_VNTS]
    /\ pc' = "join"
    /\ UNCHANGED <<module, PERIODS, period_start_year, vintage_costs_tab, VNTS,
                   lifetime_yrs, OPR_PRDS_BY_VINTAGE, OPR_PRDS, VNTS_OPR_IN_PRD,
                   Capacity, build_error, registryVars>>
    /\ UNCHANGED <<projects_tab, spec_capacity_tab, gen_ccs_new_vintage_costs_tab,
                   required_capacity_modules, next_module, PRJ_OPR_PRDS, join_error>>
    /\ UNCHANGED balanceVars
    /\ UNCHANGED linkVars
    /\ UNCHANGED <<roomVars, powerVars, drNewVars, operationsVars>>

load_capacity_type_data_rejected ==
    /\ pc = "load"
    /\ \E r \in Range(vintage_costs_tab) \cup Range(gen_ccs_new_vintage_costs_tab) :
          r[1] \notin PROJECTS \/ r[2] \notin Range(PERIODS)
    /\ build_error' = "ValueError"
    /\ pc' = "failed"
    /\ UNCHANGED <<module, PERIODS, period_start_year, vintage_costs_tab, VNTS,
                   lifetime_yrs, OPR_PRDS_BY_VINTAGE, OPR_PRDS, VNTS_OPR_IN_PRD,
                   Capacity, registryVars, joinVars>>
    /\ UNCHANGED balanceVars
    /\ UNCHANGED linkVars
    /\ UNCHANGED <<roomVars, powerVars, drNewVars, operationsVars>>

\* the sets named in set_list are united; a pair that two of them hold is a
\* conflict, reported with its project and its period
RECURSIVE JoinFrom(_, _, _)
JoinFrom(set_list, i, joined_set) ==
    IF i > Len(set_list)
    THEN [type |-> "none", relation |-> Lexicographic(joined_set)]
    ELSE LET s == model_sets[set_list[i]]
         IN IF s \cap joined_set # {}
            THEN LET pair == Lexicographic(s \cap joined_set)[1]
                 IN [type |-> "ConflictError", project |-> pair[1],
                     period |-> pair[2]]
            ELSE JoinFrom(set_list, i + 1, joined_set \cup s)

join_sets(set_list) == JoinFrom(set_list, 1, {})

Construct_PRJ_OPR_PRDS ==
    /\ pc = "join"
    /\ LET joined == join_sets(capacity_type_operational_period_sets)
       IN IF joined.type = "none"
          THEN /\ PRJ_OPR_PRDS' = joined.relation
               /\ pc' = "joined"
               /\ UNCHANGED join_error
          ELSE /\ join_error' = joined
               /\ pc' = "conflict"
               /\ UNCHANGED PRJ_OPR_PRDS
    /\ UNCHANGED <<module, PERIODS, period_start_year, vintage_costs_tab, VNTS,
                   lifetime_yrs, OPR_PRDS_BY_VINTAGE, OPR_PRDS, VNTS_OPR_IN_PRD,
                   Capacity, build_error, registryVars>>
    /\ UNCHANGED <<projects_tab, spec_capacity_tab, gen_ccs_new_vintage_costs_tab,
                   required_capacity_modules, next_module, model_sets>>
    /\ UNCHANGED balanceVars
    /\ UNCHANGED linkVars
    /\ UNCHANGED <<roomVars, powerVars, drNewVars, operationsVars>>

\* projects.tab: one row for a project, or a row for each project in either order
ProjectsTabs ==
    {<<r>> : r \in Names \X CapacityTypes}
    \cup
    {t \in {<<r1, r2>> : r1 \in Names \X CapacityTypes, r2 \in Names \X CapacityTypes} :
        t[1][1] # t[2][1]}

\* the vintage-costs file of a capacity type that no project has is left empty
InitJoin ==
    \E n \in 1..MaxJoinPeriods, ptab \in ProjectsTabs :
        LET types == {ptab[i][2] : i \in DOMAIN ptab}
            pairs == Names \X Range(PeriodSeq(n))
        IN
        \E spec \in {S \in SUBSET pairs : Cardinality(S) <= 2},
           stor \in {<<r>> : r \in pairs \X Lifetimes} \cup {<<>>},
           new \in {<<r>> : r \in pairs \X Lifetimes} \cup {<<>>} :
            /\ (stor = <<>>) <=> ("stor_ccs_new_lin" \notin types)
            /\ (new = <<>>) <=> ("gen_ccs_new" \notin types)
            /\ PERIODS = PeriodSeq(n)
            /\ period_start_year = StartYears(PeriodSeq(n), 0)
            /\ projects_tab = ptab
            /\ spec_capacity_tab = spec
            /\ vintage_costs_tab = [i \in DOMAIN stor |->
                                      <<stor[i][1][1], stor[i][1][2], stor[i][2]>>]
            /\ gen_ccs_new_vintage_costs_tab =
                  [i \in DOMAIN new |-> <<new[i][1][1], new[i][1][2], new[i][2]>>]
            /\ pc = "start"
            /\ module = "none"
            /\ required_capacity_modules = <<>>
            /\ next_module = 0
            /\ VNTS = <<>>
            /\ lifetime_yrs = <<>>
            /\ OPR_PRDS_BY_VINTAGE = <<>>
            /\ OPR_PRDS = <<>>
            /\ VNTS_OPR_IN_PRD = <<>>
            /\ Capacity = <<>>
            /\ build_error = "none"
            /\ capacity_type_operational_period_sets = <<>>
            /\ storage_only_capacity_type_operational_period_sets = <<>>
            /\ tx_capacity_type_operational_period_sets = <<>>
            /\ model_sets = <<>>
            /\ PRJ_OPR_PRDS = <<>>
            /\ join_error = [type |-> "none"]
            /\ ccs_balance_production_components = <<>>
            /\ ccs_balance_consumption_components = <<>>
            /\ carbon_cap_balance_credit_components = <<>>
            /\ load_balance_production_components = <<>>
            /\ model_components = {}
            /\ Meet_CCS_Constraint = <<>>
            /\ subproblem = 0
            /\ horizon = <<>>
            /\ boundary = <<>>
            /\ model_attributes = {}
            /\ tmp_linked_tmp_dict = <<>>
            /\ files = <<>>
            /\ stor_linked_starting_H2_in_storage = <<>>
            /\ Stor_H2_Tracking_Constraint = <<>>
            /\ headroom_variables = <<>>
            /\ footroom_variables = <<>>
            /\ list_contents = <<>>
            /\ projects_tab_ba = <<>>
            /\ load_zone = <<>>
            /\ OPERATIONAL_PROJECTS_IN_TIMEPOINT = <<>>
            /\ Power_Production_in_Zone_MW = <<>>
            /\ dr_new_min_duration = <<>>
            /\ dr_new_min_cumulative_new_build_mwh = <<>>
            /\ dr_new_max_cumulative_new_build_mwh = <<>>
            /\ dr_new_supply_curve = <<>>
            /\ DRNew_Power_Capacity_MW = <<>>
            /\ DRNew_Build_MWh = <<>>
            /\ DRNew_Cost = <<>>
            /\ operational_type = <<>>
            /\ PRJ_OPR_TMPS = <<>>
            /\ Capacity_MW = <<>>
            /\ Availability_Derate = <<>>
            /\ Commit_Capacity_H2_Constraint = <<>>
            /\ Startup_Fuel_Burn_MMBtu = <<>>
            /\ Commit_Capacity_H2_MW = <<>>

NextJoin ==
    \/ determine_dynamic_components
    \/ dr_new_add_module_specific_components
    \/ gen_ccs_spec_add_model_components
    \/ stor_ccs_new_lin_add_model_components
    \/ gen_ccs_new_add_model_components
    \/ load_next_capacity_type_module
    \/ load_capacity_type_data
    \/ load_capacity_type_data_rejected
    \/ Construct_PRJ_OPR_PRDS

SpecJoin == InitJoin /\ [][NextJoin]_vars

-----------------------------------------------------------------------------
(* The dynamic components of the projects and of the reserve modules *)

BalancingAreaColumns == {"lf_reserves_up_ba", "lf_reserves_down_ba"}

\* a project has a balancing area of the reserve, or "." for none
InitReserves ==
    \E ptab \in ProjectsTabs :
      \E ba \in [BalancingAreaColumns ->
                    [{ptab[i][1] : i \in DOMAIN ptab} -> {".", "Zone1"}]] :
        /\ PERIODS = <<>>
        /\ period_start_year = <<>>
        /\ pc = "start"
        /\ module = "none"
        /\ vintage_costs_tab = <<>>
        /\ VNTS = <<>>
        /\ lifetime_yrs = <<>>
        /\ OPR_PRDS_BY_VINTAGE = <<>>
        /\ OPR_PRDS = <<>>
        /\ VNTS_OPR_IN_PRD = <<>>
        /\ Capacity = <<>>
        /\ build_error = "none"
        /\ capacity_type_operational_period_sets = <<>>
        /\ storage_only_capacity_type_operational_period_sets = <<>>
        /\ tx_capacity_type_operational_period_sets = <<>>
        /\ projects_tab = ptab
        /\ spec_capacity_tab = {}
        /\ gen_ccs_new_vintage_costs_tab = <<>>
        /\ required_capacity_modules = <<>>
        /\ next_module = 0
        /\ model_sets = <<>>
        /\ PRJ_OPR_PRDS = <<>>
        /\ join_error = [type |-> "none"]
        /\ ccs_balance_production_components = <<>>
        /\ ccs_balance_consumption_components = <<>>
        /\ carbon_cap_balance_credit_components = <<>>
        /\ load_balance_production_components = <<>>
        /\ model_components = {}
        /\ Meet_CCS_Constraint = <<>>
        /\ subproblem = 0
        /\ horizon = <<>>
        /\ boundary = <<>>
        /\ model_attributes = {}
        /\ tmp_linked_tmp_dict = <<>>
        /\ files = <<>>
        /\ stor_linked_starting_H2_in_storage = <<>>
        /\ Stor_H2_Tracking_Constraint = <<>>
        /\ headroom_variables = <<>>
        /\ footroom_variables = <<>>
        /\ list_contents = <<>>
        /\ projects_tab_ba = ba
        /\ load_zone = <<>>
        /\ OPERATIONAL_PROJECTS_IN_TIMEPOINT = <<>>
        /\ Power_Production_in_Zone_MW = <<>>
        /\ dr_new_min_duration = <<>>
        /\ dr_new_min_cumulative_new_build_mwh = <<>>
        /\ dr_new_max_cumulative_new_build_mwh = <<>>
        /\ dr_new_supply_curve = <<>>
        /\ DRNew_Power_Capacity_MW = <<>>
        /\ DRNew_Build_MWh = <<>>
        /\ DRNew_Cost = <<>>
        /\ operational_type = <<>>
        /\ PRJ_OPR_TMPS = <<>>
        /\ Capacity_MW = <<>>
        /\ Availability_Derate = <<>>
        /\ Commit_Capacity_H2_Constraint = <<>>
        /\ Startup_Fuel_Burn_MMBtu = <<>>
        /\ Commit_Capacity_H2_MW = <<>>

NextReserves ==
    \/ determine_dynamic_components
    \/ lf_reserves_up_determine_dynamic_components
    \/ lf_reserves_down_determine_dynamic_components

SpecReserves == InitReserves /\ [][NextReserves]_vars

-----------------------------------------------------------------------------
(* The build and a solution of the dr_new capacity type *)

\* projects.tab with one dr_new project, alone or next to another project
DrNewProjectsTabs ==
    {<<<<"A", "dr_new">>>>, <<<<"B", "dr_new">>>>,
     <<<<"A", "dr_new">>, <<"B", "gen_ccs_spec">>>>}

InitDrNew ==
    \E n \in 1..MaxDrNewPeriods, ptab \in DrNewProjectsTabs :
        /\ PERIODS = PeriodSeq(n)
        /\ period_start_year = StartYears(PeriodSeq(n), 0)
        /\ pc = "declare"
        /\ module = "dr_new"
        /\ vintage_costs_tab = <<>>
        /\ VNTS = <<>>
        /\ lifetime_yrs = <<>>
        /\ OPR_PRDS_BY_VINTAGE = <<>>
        /\ OPR_PRDS = <<>>
        /\ VNTS_OPR_IN_PRD = <<>>
        /\ Capacity = <<>>
        /\ build_error = "none"
        /\ capacity_type_operational_period_sets = <<>>
        /\ storage_only_capacity_type_operational_period_sets = <<>>
        /\ tx_capacity_type_operational_period_sets = <<>>
        /\ projects_tab = ptab
        /\ spec_capacity_tab = {}
        /\ gen_ccs_new_vintage_costs_tab = <<>>
        /\ required_capacity_modules = <<>>
        /\ next_module = 0
        /\ model_sets = <<>>
        /\ PRJ_OPR_PRDS = <<>>
        /\ join_error = [type |-> "none"]
        /\ ccs_balance_production_components = <<>>
        /\ ccs_balance_consumption_components = <<>>
        /\ carbon_cap_balance_credit_components = <<>>
        /\ load_balance_production_components = <<>>
        /\ model_components = {}
        /\ Meet_CCS_Constraint = <<>>
        /\ subproblem = 0
        /\ horizon = <<>>
        /\ boundary = <<>>
        /\ model_attributes = {}
        /\ tmp_linked_tmp_dict = <<>>
        /\ files = <<>>
        /\ stor_linked_starting_H2_in_storage = <<>>
        /\ Stor_H2_Tracking_Constraint = <<>>
        /\ headroom_variables = <<>>
        /\ footroom_variables = <<>>
        /\ list_contents = <<>>
        /\ projects_tab_ba = <<>>
        /\ load_zone = <<>>
        /\ OPERATIONAL_PROJECTS_IN_TIMEPOINT = <<>>
        /\ Power_Production_in_Zone_MW = <<>>
        /\ dr_new_min_duration = <<>>
        /\ dr_new_min_cumulative_new_build_mwh = <<>>
        /\ dr_new_max_cumulative_new_build_mwh = <<>>
        /\ dr_new_supply_curve = <<>>
        /\ DRNew_Power_Capacity_MW = <<>>
        /\ DRNew_Build_MWh = <<>>
        /\ DRNew_Cost = <<>>
        /\ operational_type = <<>>
        /\ PRJ_OPR_TMPS = <<>>
        /\ Capacity_MW = <<>>
        /\ Availability_Derate = <<>>
        /\ Commit_Capacity_H2_Constraint = <<>>
        /\ Startup_Fuel_Burn_MMBtu = <<>>
        /\ Commit_Capacity_H2_MW = <<>>

NextDrNew ==
    \/ dr_new_add_module_specific_components
    \/ dr_new_load_module_specific_data
    \/ Construct_DRNew_Power_Capacity_MW
    \/ dr_new_solve

SpecDrNew == InitDrNew /\ [][NextDrNew]_vars

-----------------------------------------------------------------------------
(* gridpath/project/operations/operational_types/gen_commit_cap_H2.py *)

\* the operational types of src/gridpath/project/operations/operational_types
OperationalTypes == {"gen_commit_cap_H2", "stor_H2", "gen_H2_ele", "dac"}

\* the values of Availability_Derate that are tried, in percent
Derates == {0, 50, 100}

GEN_COMMIT_CAP_H2 ==
    {g \in DOMAIN operational_type : operational_type[g] = "gen_commit_cap_H2"}

GEN_COMMIT_CAP_H2_OPR_TMPS ==
    {g_tmp \in PRJ_OPR_TMPS : g_tmp[1] \in GEN_COMMIT_CAP_H2}

\* the relation the rule returns: the variable on the left, the product of the
\* factors on the right
commit_capacity_H2_constraint_rule(g, tmp) ==
    [type |-> "Constraint",
     lhs |-> <<"Commit_Capacity_H2_MW", g, tmp>>,
     rhs |-> <<<<"Capacity_MW", g>>>>]

\* the module's own rule for the startup fuel: it reads a variable that the
\* module does not declare
gen_commit_cap_H2_startup_fuel_burn_rule(g, tmp) ==
    IF "GenCommitCap_Startup_MW" \notin model_attributes
    THEN [type |-> "AttributeError", attribute |-> "GenCommitCap_Startup_MW"]
    ELSE [type |-> "Expression",
          factors |-> <<<<"GenCommitCap_Startup_MW", g, tmp>>,
                        <<"startup_fuel_mmbtu_per_mw", g>>>>]

\* the constraint is constructed over GEN_COMMIT_CAP_H2_OPR_TMPS
Construct_Commit_Capacity_H2_Constraint ==
    /\ pc = "operational_types"
    /\ module = "gen_commit_cap_H2"
    /\ Commit_Capacity_H2_Constraint' =
           [g_tmp \in GEN_COMMIT_CAP_H2_OPR_TMPS |->
               commit_capacity_H2_constraint_rule(g_tmp[1], g_tmp[2])]
    /\ pc' = "fuel_burn"
    /\ module' = "fuel_burn"
    /\ UNCHANGED <<PERIODS, period_start_year, vintage_costs_tab, VNTS,
                   lifetime_yrs, OPR_PRDS_BY_VINTAGE, OPR_PRDS, VNTS_OPR_IN_PRD,
                   Capacity, build_error, registryVars, joinVars>>
    /\ UNCHANGED balanceVars
    /\ UNCHANGED linkVars
    /\ UNCHANGED <<roomVars, powerVars, drNewVars, operational_type,
                   PRJ_OPR_TMPS, Capacity_MW, Availability_Derate,
                   Startup_Fuel_Burn_MMBtu, Commit_Capacity_H2_MW>>

RECURSIVE Product(_)
Product(values) ==
    IF values = <<>> THEN 1 ELSE Head(values) * Product(Tail(values))

\* the value of a product of factors, in hundredths
ProductInHundredths(factors) ==
    LET value(f) == IF f[1] = "Capacity_MW" THEN Capacity_MW[f[2]]
                    ELSE Availability_Derate[<<f[2], f[3]>>]
        whole == \A i \in DOMAIN factors : factors[i][1] # "Availability_Derate"
    IN (IF whole THEN 100 ELSE 1)
       * Product([i \in DOMAIN factors |-> value(factors[i])])

\* a level of the variable on the left satisfies the constraint
Satisfies(constraint, level) ==
    level * 100 <= ProductInHundredths(constraint.rhs)

\* a solution: committed capacities that satisfy every commitment constraint
gen_commit_cap_H2_solve ==
    /\ pc = "solve"
    /\ \E commit \in [GEN_COMMIT_CAP_H2_OPR_TMPS -> 0..MaxCapacity] :
           /\ \A g_tmp \in GEN_COMMIT_CAP_H2_OPR_TMPS :
                  Satisfies(Commit_Capacity_H2_Constraint[g_tmp], commit[g_tmp])
           /\ Commit_Capacity_H2_MW' = commit
    /\ pc' = "solved"
    /\ UNCHANGED <<module, PERIODS, period_start_year, vintage_costs_tab, VNTS,
                   lifetime_yrs, OPR_PRDS_BY_VINTAGE, OPR_PRDS, VNTS_OPR_IN_PRD,
                   Capacity, build_error, registryVars, joinVars>>
    /\ UNCHANGED balanceVars
    /\ UNCHANGED linkVars
    /\ UNCHANGED <<roomVars, powerVars, drNewVars, operational_type,
                   PRJ_OPR_TMPS, Capacity_MW, Availability_Derate,
                   Commit_Capacity_H2_Constraint, Startup_Fuel_Burn_MMBtu>>

-----------------------------------------------------------------------------
(* gridpath/project/operations/fuel_burn.py *)

\* the operational-type modules that define a function startup_fuel_burn_rule
ModulesWithStartupFuelBurnRule == {"gen_commit_cap_H2"}

\* imported_operational_modules[gen_op_type].startup_fuel_burn_rule(mod, g, tmp)
startup_fuel_burn_rule(g, tmp) ==
    LET gen_op_type == operational_type[g]
    IN IF gen_op_type \notin ModulesWithStartupFuelBurnRule
       THEN [type |-> "AttributeError", attribute |-> "startup_fuel_burn_rule"]
       ELSE gen_commit_cap_H2_startup_fuel_burn_rule(g, tmp)

\* Startup_Fuel_Burn_MMBtu is constructed over PRJ_OPR_TMPS; an exception of the
\* rule ends the build. No project of the build has a fuel, so that
\* Operations_Fuel_Burn_MMBtu and Total_Fuel_Burn_MMBtu are empty.
Construct_Startup_Fuel_Burn_MMBtu ==
    /\ pc = "fuel_burn"
    /\ module = "fuel_burn"
    /\ LET raised == {g_tmp \in PRJ_OPR_TMPS :
                         startup_fuel_burn_rule(g_tmp[1], g_tmp[2]).type
                             = "AttributeError"}
       IN IF raised # {}
          THEN /\ build_error' = "AttributeError"
               /\ pc' = "failed"
               /\ UNCHANGED Startup_Fuel_Burn_MMBtu
          ELSE /\ Startup_Fuel_Burn_MMBtu' =
                      [g_tmp \in PRJ_OPR_TMPS |->
                          startup_fuel_burn_rule(g_tmp[1], g_tmp[2])]
               /\ pc' = "solve"
               /\ UNCHANGED build_error
    /\ UNCHANGED <<module, PERIODS, period_start_year, vintage_costs_tab, VNTS,
                   lifetime_yrs, OPR_PRDS_BY_VINTAGE, OPR_PRDS, VNTS_OPR_IN_PRD,
                   Capacity, registryVars, joinVars>>
    /\ UNCHANGED balanceVars
    /\ UNCHANGED linkVars
    /\ UNCHANGED <<roomVars, powerVars, drNewVars, operational_type,
                   PRJ_OPR_TMPS, Capacity_MW, Availability_Derate,
                   Commit_Capacity_H2_Constraint, Commit_Capacity_H2_MW>>

\* builds of one or two projects over a few timepoints of one period
InitOperations ==
    \E projects \in (SUBSET Names) \ {{}}, n \in 1..MaxOprTmps,
       attrs \in SUBSET {"GenCommitCap_Startup_MW"} :
        \E types \in [projects -> OperationalTypes] :
            \E capacity \in [{g \in projects : types[g] = "gen_commit_cap_H2"}
                                -> 0..MaxCapacity],
               derate \in [{g \in projects : types[g] = "gen_commit_cap_H2"}
                               \X (1..n) -> Derates] :
            /\ PERIODS = <<>>
            /\ period_start_year = <<>>
            /\ pc = "operational_types"
            /\ module = "gen_commit_cap_H2"
            /\ vintage_costs_tab = <<>>
            /\ VNTS = <<>>
            /\ lifetime_yrs = <<>>
            /\ OPR_PRDS_BY_VINTAGE = <<>>
            /\ OPR_PRDS = <<>>
            /\ VNTS_OPR_IN_PRD = <<>>
            /\ Capacity = <<>>
            /\ build_error = "none"
            /\ capacity_type_operational_period_sets = <<>>
            /\ storage_only_capacity_type_operational_period_sets = <<>>
            /\ tx_capacity_type_operational_period_sets = <<>>
            /\ projects_tab = <<>>
            /\ spec_capacity_tab = {}
            /\ gen_ccs_new_vintage_costs_tab = <<>>
            /\ required_capacity_modules = <<>>
            /\ next_module = 0
            /\ model_sets = <<>>
            /\ PRJ_OPR_PRDS = <<>>
            /\ join_error = [type |-> "none"]
            /\ ccs_balance_production_components = <<>>
            /\ ccs_balance_consumption_components = <<>>
            /\ carbon_cap_balance_credit_components = <<>>
            /\ load_balance_production_components = <<>>
            /\ model_components = {}
            /\ Meet_CCS_Constraint = <<>>
            /\ subproblem = 0
            /\ horizon = <<>>
            /\ boundary = <<>>
            /\ model_attributes = attrs
            /\ tmp_linked_tmp_dict = <<>>
            /\ files = <<>>
            /\ stor_linked_starting_H2_in_storage = <<>>
            /\ Stor_H2_Tracking_Constraint = <<>>
            /\ headroom_variables = <<>>
            /\ footroom_variables = <<>>
            /\ list_contents = <<>>
            /\ projects_tab_ba = <<>>
            /\ load_zone = <<>>
            /\ OPERATIONAL_PROJECTS_IN_TIMEPOINT = <<>>
            /\ Power_Production_in_Zone_MW = <<>>
            /\ dr_new_min_duration = <<>>
            /\ dr_new_min_cumulative_new_build_mwh = <<>>
            /\ dr_new_max_cumulative_new_build_mwh = <<>>
            /\ dr_new_supply_curve = <<>>
            /\ DRNew_Power_Capacity_MW = <<>>
            /\ DRNew_Build_MWh = <<>>
            /\ DRNew_Cost = <<>>
            /\ operational_type = types
            /\ PRJ_OPR_TMPS = projects \X (1..n)
            /\ Capacity_MW = capacity
            /\ Availability_Derate = derate
            /\ Commit_Capacity_H2_Constraint = <<>>
            /\ Startup_Fuel_Burn_MMBtu = <<>>
            /\ Commit_Capacity_H2_MW = <<>>

NextOperations ==
    \/ Construct_Commit_Capacity_H2_Constraint
    \/ Construct_Startup_Fuel_Burn_MMBtu
    \/ gen_commit_cap_H2_solve

SpecOperations == InitOperations /\ [][NextOperations]_vars

-----------------------------------------------------------------------------
(* gridpath/system/load_balance/ccs_balance.py *)

\* the other variables of the build, which the balance modules leave alone
buildVars == <<module, PERIODS, period_start_year, vintage_costs_tab, VNTS,
               lifetime_yrs, OPR_PRDS_BY_VINTAGE, OPR_PRDS, VNTS_OPR_IN_PRD,
               Capacity, build_error, registryVars, joinVars>>

\* record_dynamic_components(d): list.append on both lists, with no test of
\* what the lists hold
ccs_balance_record(d_production, d_consumption) ==
    [production |-> Append(d_production, "Unserved_CCS_Expression"),
     consumption |-> Append(d_consumption, "Over_CCS_Expression")]

ccs_balance_record_dynamic_components ==
    /\ pc = "build"
    /\ Len(ccs_balance_production_components) < MaxRegistrations
    /\ LET d == ccs_balance_record(ccs_balance_production_components,
                                   ccs_balance_consumption_components)
       IN /\ ccs_balance_production_components' = d.production
          /\ ccs_balance_consumption_components' = d.consumption
    /\ UNCHANGED <<pc, carbon_cap_balance_credit_components,
                   load_balance_production_components, model_components,
                   Meet_CCS_Constraint, buildVars>>
    /\ UNCHANGED linkVars
    /\ UNCHANGED <<roomVars, powerVars, drNewVars, operationsVars>>

\* the rule of the constraint is evaluated when the constraint is declared
Mutant_ccs_balance_constructs_at_declaration ==
    /\ pc = "build"
    /\ "Over_CCS" \notin model_components
    /\ Len(ccs_balance_production_components) < MaxRegistrations
    /\ LET d == ccs_balance_record(ccs_balance_production_components,
                                   ccs_balance_consumption_components)
       IN /\ ccs_balance_production_components' = d.production
          /\ ccs_balance_consumption_components' = d.consumption
          /\ Meet_CCS_Constraint' = [lhs |-> d.production, rhs |-> d.consumption]
    /\ model_components' = model_components \cup
          {"Over_CCS", "Unserved_CCS", "Over_CCS_Expression",
           "Unserved_CCS_Expression", "Meet_CCS_Constraint"}
    /\ UNCHANGED <<pc, carbon_cap_balance_credit_components,
                   load_balance_production_components, buildVars>>
    /\ UNCHANGED linkVars
    /\ UNCHANGED <<roomVars, powerVars, drNewVars, operationsVars>>

\* add_model_components: the penalty variables and expressions are declared,
\* the names are recorded, and the constraint is declared; a component of m
\* cannot be declared a second time
ccs_balance_add_model_components ==
    /\ pc = "build"
    /\ "Over_CCS" \notin model_components
    /\ Len(ccs_balance_production_components) < MaxRegistrations
    /\ LET d == ccs_balance_record(ccs_balance_production_components,
                                   ccs_balance_consumption_components)
       IN /\ ccs_balance_production_components' = d.production
          /\ ccs_balance_consumption_components' = d.consumption
    /\ model_components' = model_components \cup
          {"Over_CCS", "Unserved_CCS", "Over_CCS_Expression",
           "Unserved_CCS_Expression", "Meet_CCS_Constraint"}
    /\ UNCHANGED <<pc, carbon_cap_balance_credit_components,
                   load_balance_production_components, Meet_CCS_Constraint,
                   buildVars>>
    /\ UNCHANGED linkVars
    /\ UNCHANGED <<roomVars, powerVars, drNewVars, operationsVars>>

\* meet_ccs_rule, evaluated when the constraint is constructed: both sides are
\* the sums over the names the lists hold at that time
meet_ccs_rule ==
    [lhs |-> ccs_balance_production_components,
     rhs |-> ccs_balance_consumption_components]

\* the rule takes the names off the production list as it sums them
Mutant_Construct_pops_components ==
    /\ pc = "build"
    /\ "Meet_CCS_Constraint" \in model_components
    /\ Meet_CCS_Constraint' = meet_ccs_rule
    /\ ccs_balance_production_components' = <<>>
    /\ pc' = "instance"
    /\ UNCHANGED <<ccs_balance_consumption_components,
                   carbon_cap_balance_credit_components,
                   load_balance_production_components, model_components,
                   buildVars>>
    /\ UNCHANGED linkVars
    /\ UNCHANGED <<roomVars, powerVars, drNewVars, operationsVars>>

Construct_Meet_CCS_Constraint ==
    /\ pc = "build"
    /\ "Meet_CCS_Constraint" \in model_components
    /\ Meet_CCS_Constraint' = meet_ccs_rule
    /\ pc' = "instance"
    /\ UNCHANGED <<ccs_balance_production_components,
                   ccs_balance_consumption_components,
                   carbon_cap_balance_credit_components,
                   load_balance_production_components, model_components,
                   buildVars>>
    /\ UNCHANGED linkVars
    /\ UNCHANGED <<roomVars, powerVars, drNewVars, operationsVars>>

-----------------------------------------------------------------------------
(* gridpath/system/policy/carbon_cap/purchase_credits.py *)

purchase_credits_record(d_credit) ==
    Append(d_credit, "Carbon_Cap_Total_Credit_Purchases")

purchase_credits_record_dynamic_components ==
    /\ pc = "build"
    /\ Len(carbon_cap_balance_credit_components) < MaxRegistrations
    /\ carbon_cap_balance_credit_components' =
          purchase_credits_record(carbon_cap_balance_credit_components)
    /\ UNCHANGED <<pc, ccs_balance_production_components,
                   ccs_balance_consumption_components,
                   load_balance_production_components, model_components,
                   Meet_CCS_Constraint, buildVars>>
    /\ UNCHANGED linkVars
    /\ UNCHANGED <<roomVars, powerVars, drNewVars, operationsVars>>

purchase_credits_add_model_components ==
    /\ pc = "build"
    /\ "CARBON_CAP_ZONES_CARBON_CREDITS_ZONES" \notin model_components
    /\ Len(carbon_cap_balance_credit_components) < MaxRegistrations
    /\ model_components' = model_components \cup
          {"CARBON_CAP_ZONES_CARBON_CREDITS_ZONES", "Carbon_Cap_Purchase_Credits",
           "Carbon_Cap_Total_Credit_Purchases"}
    /\ carbon_cap_balance_credit_components' =
          purchase_credits_record(carbon_cap_balance_credit_components)
    /\ UNCHANGED <<pc, ccs_balance_production_components,
                   ccs_balance_consumption_components,
                   load_balance_production_components, Meet_CCS_Constraint,
                   buildVars>>
    /\ UNCHANGED linkVars
    /\ UNCHANGED <<roomVars, powerVars, drNewVars, operationsVars>>

-----------------------------------------------------------------------------
(* modules/project/operations/power.py *)

LOAD_ZONES == {"Zone1", "Zone2"}

TIMEPOINTS == DOMAIN OPERATIONAL_PROJECTS_IN_TIMEPOINT

\* the provision of every operational project is in the sum of every zone
Mutant_production_of_all_zones(z, tmp) ==
    [i \in DOMAIN OPERATIONAL_PROJECTS_IN_TIMEPOINT[tmp] |->
        <<"Power_Provision_MW", OPERATIONAL_PROJECTS_IN_TIMEPOINT[tmp][i], tmp>>]

\* the terms Power_Provision_MW[g, tmp] of the sum of zone z
total_power_production_rule(z, tmp) ==
    LET in_zone == SelectSeq(OPERATIONAL_PROJECTS_IN_TIMEPOINT[tmp],
                             LAMBDA g : load_zone[g] = z)
    IN [i \in DOMAIN in_zone |-> <<"Power_Provision_MW", in_zone[i], tmp>>]

power_add_model_components ==
    /\ pc = "build"
    /\ "Power_Provision_MW" \notin model_components
    /\ model_components' = model_components \cup
          {"Power_Provision_MW", "Power_Production_in_Zone_MW"}
    /\ load_balance_production_components' =
          Append(load_balance_production_components, "Power_Production_in_Zone_MW")
    /\ UNCHANGED <<pc, ccs_balance_production_components,
                   ccs_balance_consumption_components,
                   carbon_cap_balance_credit_components, Meet_CCS_Constraint,
                   buildVars>>
    /\ UNCHANGED linkVars
    /\ UNCHANGED <<roomVars, powerVars, drNewVars, operationsVars>>

\* the expression is constructed when the instance is created
Construct_Power_Production_in_Zone_MW ==
    /\ pc = "build"
    /\ "Power_Production_in_Zone_MW" \in model_components
    /\ Power_Production_in_Zone_MW' =
          [zt \in LOAD_ZONES \X TIMEPOINTS |-> total_power_production_rule(zt[1], zt[2])]
    /\ pc' = "instance"
    /\ UNCHANGED <<balanceVars, buildVars, load_zone,
                   OPERATIONAL_PROJECTS_IN_TIMEPOINT>>
    /\ UNCHANGED linkVars
    /\ UNCHANGED <<roomVars, drNewVars, operationsVars>>

-----------------------------------------------------------------------------
(* The build of the balance modules on one DynamicComponents object *)

InitRegistry ==
    /\ PERIODS = <<>>
    /\ period_start_year = <<>>
    /\ pc = "build"
    /\ module = "none"
    /\ vintage_costs_tab = <<>>
    /\ VNTS = <<>>
    /\ lifetime_yrs = <<>>
    /\ OPR_PRDS_BY_VINTAGE = <<>>
    /\ OPR_PRDS = <<>>
    /\ VNTS_OPR_IN_PRD = <<>>
    /\ Capacity = <<>>
    /\ build_error = "none"
    /\ capacity_type_operational_period_sets = <<>>
    /\ storage_only_capacity_type_operational_period_sets = <<>>
    /\ tx_capacity_type_operational_period_sets = <<>>
    /\ projects_tab = <<>>
    /\ spec_capacity_tab = {}
    /\ gen_ccs_new_vintage_costs_tab = <<>>
    /\ required_capacity_modules = <<>>
    /\ next_module = 0
    /\ model_sets = <<>>
    /\ PRJ_OPR_PRDS = <<>>
    /\ join_error = [type |-> "none"]
    /\ ccs_balance_production_components = <<>>
    /\ ccs_balance_consumption_components = <<>>
    /\ carbon_cap_balance_credit_components = <<>>
    /\ load_balance_production_components = <<>>
    /\ model_components = {}
    /\ Meet_CCS_Constraint = <<>>
    /\ subproblem = 0
    /\ horizon = <<>>
    /\ boundary = <<>>
    /\ model_attributes = {}
    /\ tmp_linked_tmp_dict = <<>>
    /\ files = <<>>
    /\ stor_linked_starting_H2_in_storage = <<>>
    /\ Stor_H2_Tracking_Constraint = <<>>
    /\ headroom_variables = <<>>
    /\ footroom_variables = <<>>
    /\ list_contents = <<>>
    /\ projects_tab_ba = <<>>
    /\ load_zone = <<>>
    /\ OPERATIONAL_PROJECTS_IN_TIMEPOINT = <<>>
    /\ Power_Production_in_Zone_MW = <<>>
    /\ dr_new_min_duration = <<>>
    /\ dr_new_min_cumulative_new_build_mwh = <<>>
    /\ dr_new_max_cumulative_new_build_mwh = <<>>
    /\ dr_new_supply_curve = <<>>
    /\ DRNew_Power_Capacity_MW = <<>>
    /\ DRNew_Build_MWh = <<>>
    /\ DRNew_Cost = <<>>
    /\ operational_type = <<>>
    /\ PRJ_OPR_TMPS = <<>>
    /\ Capacity_MW = <<>>
    /\ Availability_Derate = <<>>
    /\ Commit_Capacity_H2_Constraint = <<>>
    /\ Startup_Fuel_Burn_MMBtu = <<>>
    /\ Commit_Capacity_H2_MW = <<>>

NextRegistry ==
    \/ ccs_balance_record_dynamic_components
    \/ ccs_balance_add_model_components
    \/ Construct_Meet_CCS_Constraint
    \/ purchase_credits_record_dynamic_components
    \/ purchase_credits_add_model_components
    \/ power_add_model_components

SpecRegistry == InitRegistry /\ [][NextRegistry]_vars

-----------------------------------------------------------------------------
(* The build of the power production of the load zones *)

\* the operational projects of a timepoint, as the set enumerates them
OperationalProjects == {<<>>, <<"A">>, <<"B">>, <<"A", "B">>, <<"B", "A">>}

InitPower ==
    \E n \in 1..MaxTmps :
      \E zones \in [Names -> LOAD_ZONES], opr \in [1..n -> OperationalProjects] :
        /\ PERIODS = <<>>
        /\ period_start_year = <<>>
        /\ pc = "build"
        /\ module = "none"
        /\ vintage_costs_tab = <<>>
        /\ VNTS = <<>>
        /\ lifetime_yrs = <<>>
        /\ OPR_PRDS_BY_VINTAGE = <<>>
        /\ OPR_PRDS = <<>>
        /\ VNTS_OPR_IN_PRD = <<>>
        /\ Capacity = <<>>
        /\ build_error = "none"
        /\ capacity_type_operational_period_sets = <<>>
        /\ storage_only_capacity_type_operational_period_sets = <<>>
        /\ tx_capacity_type_operational_period_sets = <<>>
        /\ projects_tab = <<>>
        /\ spec_capacity_tab = {}
        /\ gen_ccs_new_vintage_costs_tab = <<>>
        /\ required_capacity_modules = <<>>
        /\ next_module = 0
        /\ model_sets = <<>>
        /\ PRJ_OPR_PRDS = <<>>
        /\ join_error = [type |-> "none"]
        /\ ccs_balance_production_components = <<>>
        /\ ccs_balance_consumption_components = <<>>
        /\ carbon_cap_balance_credit_components = <<>>
        /\ load_balance_production_components = <<>>
        /\ model_components = {}
        /\ Meet_CCS_Constraint = <<>>
        /\ subproblem = 0
        /\ horizon = <<>>
        /\ boundary = <<>>
        /\ model_attributes = {}
        /\ tmp_linked_tmp_dict = <<>>
        /\ files = <<>>
        /\ stor_linked_starting_H2_in_storage = <<>>
        /\ Stor_H2_Tracking_Constraint = <<>>
        /\ headroom_variables = <<>>
        /\ footroom_variables = <<>>
        /\ list_contents = <<>>
        /\ projects_tab_ba = <<>>
        /\ load_zone = zones
        /\ OPERATIONAL_PROJECTS_IN_TIMEPOINT = opr
        /\ Power_Production_in_Zone_MW = <<>>
        /\ dr_new_min_duration = <<>>
        /\ dr_new_min_cumulative_new_build_mwh = <<>>
        /\ dr_new_max_cumulative_new_build_mwh = <<>>
        /\ dr_new_supply_curve = <<>>
        /\ DRNew_Power_Capacity_MW = <<>>
        /\ DRNew_Build_MWh = <<>>
        /\ DRNew_Cost = <<>>
        /\ operational_type = <<>>
        /\ PRJ_OPR_TMPS = <<>>
        /\ Capacity_MW = <<>>
        /\ Availability_Derate = <<>>
        /\ Commit_Capacity_H2_Constraint = <<>>
        /\ Startup_Fuel_Burn_MMBtu = <<>>
        /\ Commit_Capacity_H2_MW = <<>>

NextPower ==
    \/ power_add_model_components
    \/ Construct_Power_Production_in_Zone_MW

SpecPower == InitPower /\ [][NextPower]_vars

-----------------------------------------------------------------------------
(* gridpath/project/operations/operational_types/stor_H2.py *)

\* the other variables of the build, which the linkage steps leave alone
nonLinkVars == <<module, PERIODS, period_start_year, vintage_costs_tab, VNTS,
                 lifetime_yrs, OPR_PRDS_BY_VINTAGE, OPR_PRDS, VNTS_OPR_IN_PRD,
                 Capacity, registryVars, joinVars, balanceVars, roomVars,
                 powerVars, drNewVars, operationsVars>>

STOR_H2 == {"S"}

\* the projects of the operational type that owns GEN_H2_OPR_TMPS
GEN_H2 == {"G"}

TMPS == DOMAIN horizon

STOR_H2_OPR_TMPS == STOR_H2 \X TMPS

GEN_H2_OPR_TMPS == GEN_H2 \X TMPS

BoundaryTypes == {"linear", "circular", "linked"}

first_hrz_tmp(h) ==
    CHOOSE tmp \in TMPS : horizon[tmp] = h /\ \A t \in TMPS : horizon[t] = h => tmp <= t

last_hrz_tmp(h) ==
    CHOOSE tmp \in TMPS : horizon[tmp] = h /\ \A t \in TMPS : horizon[t] = h => t <= tmp

check_if_first_timepoint(tmp) == tmp = first_hrz_tmp(horizon[tmp])

check_boundary_type(tmp, boundary_type) == boundary[horizon[tmp]] = boundary_type

\* the previous timepoint within the horizon; the first timepoint of a
\* circular horizon has the last one, of any other horizon none (0)
prev_tmp(tmp) ==
    IF check_if_first_timepoint(tmp)
    THEN IF check_boundary_type(tmp, "circular") THEN last_hrz_tmp(horizon[tmp]) ELSE 0
    ELSE tmp - 1

\* the first timepoint of a circular horizon reads the linked params
Mutant_rule_links_circular_start(s, tmp) ==
    IF check_if_first_timepoint(tmp) /\ check_boundary_type(tmp, "linear")
    THEN [type |-> "Skip"]
    ELSE IF check_if_first_timepoint(tmp) /\ check_boundary_type(tmp, "linked")
         THEN IF <<s, 0>> \notin DOMAIN stor_linked_starting_H2_in_storage
              THEN [type |-> "KeyError"]
              ELSE [type |-> "UnboundLocalError"]
         ELSE IF check_if_first_timepoint(tmp)
              THEN [type |-> "Constraint",
                    prev_tmp_hrs_in_tmp |-> <<"hrs_in_linked_tmp", 0>>,
                    prev_tmp_weight |-> <<"tmp_weight", prev_tmp(tmp)>>,
                    prev_tmp_starting_energy_in_storage |->
                        <<"stor_linked_starting_H2_in_storage", s, 0>>,
                    prev_tmp_discharge |-> <<"stor_H2_linked_discharge", s, 0>>,
                    prev_tmp_charge |-> <<"stor_H2_linked_charge", s, 0>>]
              ELSE [type |-> "Constraint",
                    prev_tmp_hrs_in_tmp |-> <<"hrs_in_tmp", prev_tmp(tmp)>>,
                    prev_tmp_weight |-> <<"tmp_weight", prev_tmp(tmp)>>,
                    prev_tmp_starting_energy_in_storage |->
                        <<"Stor_Starting_H2_in_Storage_MWh", s, prev_tmp(tmp)>>,
                    prev_tmp_discharge |-> <<"Stor_H2_Discharge_MW", s, prev_tmp(tmp)>>,
                    prev_tmp_charge |-> <<"Stor_H2_Charge_MW", s, prev_tmp(tmp)>>]

\* what evaluating the rule for (s, tmp) gives: Constraint.Skip, an exception,
\* or the equation, as the components its previous-timepoint terms refer to
H2_tracking_rule(s, tmp) ==
    IF check_if_first_timepoint(tmp) /\ check_boundary_type(tmp, "linear")
    THEN [type |-> "Skip"]
    ELSE IF check_if_first_timepoint(tmp) /\ check_boundary_type(tmp, "linked")
         THEN IF <<s, 0>> \notin DOMAIN stor_linked_starting_H2_in_storage
              THEN [type |-> "KeyError"]
              \* prev_tmp_weight is assigned in the other branch only
              ELSE [type |-> "UnboundLocalError"]
         ELSE [type |-> "Constraint",
               prev_tmp_hrs_in_tmp |-> <<"hrs_in_tmp", prev_tmp(tmp)>>,
               prev_tmp_weight |-> <<"tmp_weight", prev_tmp(tmp)>>,
               prev_tmp_starting_energy_in_storage |->
                   <<"Stor_Starting_H2_in_Storage_MWh", s, prev_tmp(tmp)>>,
               prev_tmp_discharge |-> <<"Stor_H2_Discharge_MW", s, prev_tmp(tmp)>>,
               prev_tmp_charge |-> <<"Stor_H2_Charge_MW", s, prev_tmp(tmp)>>,
               \* the returned equation: what the previous charge is
               \* multiplied by, and what the previous discharge is
               \* multiplied and divided by
               starting_energy_in_storage |->
                   <<"Stor_Starting_H2_in_Storage_MWh", s, tmp>>,
               charge_times |-> {<<"hrs_in_tmp", prev_tmp(tmp)>>,
                                 <<"tmp_weight", prev_tmp(tmp)>>,
                                 <<"stor_H2_charging_efficiency", s>>},
               discharge_times |-> {<<"hrs_in_tmp", prev_tmp(tmp)>>,
                                    <<"tmp_weight", prev_tmp(tmp)>>},
               discharge_over |-> {<<"stor_H2_discharging_efficiency", s>>}]

InputsFile(k, name) == <<k, "inputs", name>>

ResultsFile(k, name) == <<k, "results", name>>

\* the file the build of a subproblem looks for
linked_inputs_filename == InputsFile(subproblem, "stor_H2_linked_timepoint_params.tab")

\* load_model_data: the linked file, when there, is loaded with the index
\* STOR_LINKED_TMPS, a set of another operational type; the linked params are
\* indexed by STOR_H2_LINKED_TMPS, which gets no data, so no row is accepted
stor_H2_load_model_data ==
    /\ pc = "load"
    /\ IF linked_inputs_filename \notin DOMAIN files
       THEN pc' = "construct" /\ UNCHANGED build_error
       ELSE IF "STOR_LINKED_TMPS" \notin model_attributes
            THEN pc' = "failed" /\ build_error' = "AttributeError"
            ELSE IF files[linked_inputs_filename] # <<>>
                 THEN pc' = "failed" /\ build_error' = "KeyError"
                 ELSE pc' = "construct" /\ UNCHANGED build_error
    /\ UNCHANGED <<linkVars, nonLinkVars>>

\* Stor_H2_Tracking_Constraint over STOR_H2_OPR_TMPS: an exception of the rule
\* ends the build
Construct_Stor_H2_Tracking_Constraint ==
    /\ pc = "construct"
    /\ LET result == [st \in STOR_H2_OPR_TMPS |-> H2_tracking_rule(st[1], st[2])]
           raised == {st \in STOR_H2_OPR_TMPS :
                         result[st].type \notin {"Skip", "Constraint"}}
       IN IF raised = {}
          THEN /\ Stor_H2_Tracking_Constraint' = result
               /\ pc' = "solved"
               /\ UNCHANGED build_error
          ELSE /\ \E st \in raised : build_error' = result[st].type
               /\ pc' = "failed"
               /\ UNCHANGED Stor_H2_Tracking_Constraint
    /\ UNCHANGED <<subproblem, horizon, boundary, model_attributes,
                   tmp_linked_tmp_dict, files, stor_linked_starting_H2_in_storage,
                   nonLinkVars>>

\* the rows of dispatch_stor_H2.csv, one for each (p, tmp) of rows
DispatchRows(rows) ==
    [i \in DOMAIN rows |->
        [project |-> rows[i][1], timepoint |-> rows[i][2],
         H2_stor_mwh |-> <<"Stor_Starting_H2_in_Storage_MWh", rows[i][1], rows[i][2]>>,
         H2_charge_mw |-> <<"Stor_H2_Charge_MW", rows[i][1], rows[i][2]>>,
         H2_discharge_mw |-> <<"Stor_H2_Discharge_MW", rows[i][1], rows[i][2]>>]]

\* check_for_tmps_to_link: the timepoints of the map of linked subproblems
tmps_to_link == DOMAIN tmp_linked_tmp_dict

\* the rows written for sorted(GEN_H2_OPR_TMPS), a row for a timepoint to link
LinkedRows ==
    LET linked == {gt \in GEN_H2_OPR_TMPS : gt[2] \in tmps_to_link}
        sorted == Lexicographic(linked)
    IN [i \in DOMAIN sorted |->
           [project |-> sorted[i][1],
            linked_timepoint |-> tmp_linked_tmp_dict[sorted[i][2]],
            linked_charge |-> <<"Gen_H2_Charge_MW", sorted[i][1], sorted[i][2], subproblem>>,
            linked_H2 |-> <<"Gen_H2_MW", sorted[i][1], sorted[i][2], subproblem>>]]

\* the file of the next subproblem that the export opens for writing
next_subproblem_filename ==
    InputsFile(subproblem + 1, "gen_H2_linked_timepoint_params.tab")

WriteFile(fs, path, rows) ==
    [f \in DOMAIN fs \cup {path} |-> IF f = path THEN rows ELSE fs[f]]

\* the linked file is written whatever the list of timepoints to link holds
Mutant_export_always_writes ==
    /\ pc = "solved"
    /\ \E rows \in Orderings(STOR_H2_OPR_TMPS) :
          LET dispatched == WriteFile(files, ResultsFile(subproblem, "dispatch_stor_H2.csv"),
                                      DispatchRows(rows))
          IN IF "GEN_H2_OPR_TMPS" \in model_attributes
             THEN /\ files' = WriteFile(dispatched, next_subproblem_filename, LinkedRows)
                  /\ pc' = "exported"
                  /\ UNCHANGED build_error
             ELSE /\ files' = WriteFile(dispatched, next_subproblem_filename, <<>>)
                  /\ pc' = "failed"
                  /\ build_error' = "AttributeError"
    /\ UNCHANGED <<subproblem, horizon, boundary, model_attributes,
                   tmp_linked_tmp_dict, stor_linked_starting_H2_in_storage,
                   Stor_H2_Tracking_Constraint, nonLinkVars>>

\* the linked rows are written into the inputs of the subproblem itself
Mutant_export_into_own_inputs ==
    /\ pc = "solved"
    /\ \E rows \in Orderings(STOR_H2_OPR_TMPS) :
          LET dispatched == WriteFile(files, ResultsFile(subproblem, "dispatch_stor_H2.csv"),
                                      DispatchRows(rows))
              own == InputsFile(subproblem, "gen_H2_linked_timepoint_params.tab")
          IN IF tmps_to_link = {}
             THEN /\ files' = dispatched
                  /\ pc' = "exported"
                  /\ UNCHANGED build_error
             ELSE IF "GEN_H2_OPR_TMPS" \in model_attributes
                  THEN /\ files' = WriteFile(dispatched, own, LinkedRows)
                       /\ pc' = "exported"
                       /\ UNCHANGED build_error
                  ELSE /\ files' = WriteFile(dispatched, own, <<>>)
                       /\ pc' = "failed"
                       /\ build_error' = "AttributeError"
    /\ UNCHANGED <<subproblem, horizon, boundary, model_attributes,
                   tmp_linked_tmp_dict, stor_linked_starting_H2_in_storage,
                   Stor_H2_Tracking_Constraint, nonLinkVars>>

\* export_results: the dispatch of STOR_H2_OPR_TMPS goes to the results of
\* the subproblem; when there are timepoints to link, the file of the next
\* subproblem is opened for writing and gets a row for each linked
\* (p, tmp) of GEN_H2_OPR_TMPS, a set this module does not declare
stor_H2_export_results ==
    /\ pc = "solved"
    /\ \E rows \in Orderings(STOR_H2_OPR_TMPS) :
          LET dispatched == WriteFile(files, ResultsFile(subproblem, "dispatch_stor_H2.csv"),
                                      DispatchRows(rows))
          IN IF tmps_to_link = {}
             THEN /\ files' = dispatched
                  /\ pc' = "exported"
                  /\ UNCHANGED build_error
             ELSE IF "GEN_H2_OPR_TMPS" \in model_attributes
                  THEN /\ files' = WriteFile(dispatched, next_subproblem_filename, LinkedRows)
                       /\ pc' = "exported"
                       /\ UNCHANGED build_error
                  ELSE /\ files' = WriteFile(dispatched, next_subproblem_filename, <<>>)
                       /\ pc' = "failed"
                       /\ build_error' = "AttributeError"
    /\ UNCHANGED <<subproblem, horizon, boundary, model_attributes,
                   tmp_linked_tmp_dict, stor_linked_starting_H2_in_storage,
                   Stor_H2_Tracking_Constraint, nonLinkVars>>

-----------------------------------------------------------------------------
(* The subproblems of one scenario, built, solved and exported in order *)

\* the map of linked subproblems: the last timepoints of a subproblem are
\* linked to the timepoints 0, -1, ... of the next one
LinkedTmpDicts(n, k) ==
    IF k >= MaxSubproblems THEN {<<>>}
    ELSE {[tmp \in (n - j + 1)..n |-> tmp - n] : j \in 0..(IF n < 2 THEN n ELSE 2)}

\* the next subproblem of the sequence, on a model of its own, with horizons
\* of the same shape and boundaries of its own
run_next_subproblem ==
    /\ pc = "exported"
    /\ subproblem < MaxSubproblems
    /\ subproblem' = subproblem + 1
    /\ boundary' \in [DOMAIN boundary -> BoundaryTypes]
    /\ tmp_linked_tmp_dict' \in LinkedTmpDicts(Cardinality(TMPS), subproblem + 1)
    /\ Stor_H2_Tracking_Constraint' = <<>>
    /\ stor_linked_starting_H2_in_storage' = <<>>
    /\ pc' = "load"
    /\ UNCHANGED <<horizon, model_attributes, files, build_error, nonLinkVars>>

\* a linked file left in the inputs of the second subproblem before the run
LeftoverFiles ==
    {<<>>,
     [f \in {InputsFile(2, "stor_H2_linked_timepoint_params.tab")} |->
         <<[project |-> "S", linked_timepoint |-> 0]>>],
     [f \in {InputsFile(2, "stor_H2_linked_timepoint_params.tab")} |-> <<>>]}

InitLink ==
    \E n \in 1..MaxTmps, h \in 1..MaxTmps, attrs \in SUBSET {"STOR_LINKED_TMPS", "GEN_H2_OPR_TMPS"},
       left \in LeftoverFiles :
        /\ h <= n
        /\ horizon = [tmp \in 1..n |-> IF tmp <= h THEN 1 ELSE 2]
        /\ boundary \in [{horizon[tmp] : tmp \in 1..n} -> BoundaryTypes]
        /\ tmp_linked_tmp_dict \in LinkedTmpDicts(n, 1)
        /\ model_attributes = attrs
        /\ files = left
        /\ subproblem = 1
        /\ stor_linked_starting_H2_in_storage = <<>>
        /\ Stor_H2_Tracking_Constraint = <<>>
        /\ headroom_variables = <<>>
        /\ footroom_variables = <<>>
        /\ list_contents = <<>>
        /\ projects_tab_ba = <<>>
        /\ load_zone = <<>>
        /\ OPERATIONAL_PROJECTS_IN_TIMEPOINT = <<>>
        /\ Power_Production_in_Zone_MW = <<>>
        /\ dr_new_min_duration = <<>>
        /\ dr_new_min_cumulative_new_build_mwh = <<>>
        /\ dr_new_max_cumulative_new_build_mwh = <<>>
        /\ dr_new_supply_curve = <<>>
        /\ DRNew_Power_Capacity_MW = <<>>
        /\ DRNew_Build_MWh = <<>>
        /\ DRNew_Cost = <<>>
        /\ operational_type = <<>>
        /\ PRJ_OPR_TMPS = <<>>
        /\ Capacity_MW = <<>>
        /\ Availability_Derate = <<>>
        /\ Commit_Capacity_H2_Constraint = <<>>
        /\ Startup_Fuel_Burn_MMBtu = <<>>
        /\ Commit_Capacity_H2_MW = <<>>
        /\ pc = "load"
        /\ module = "stor_H2"
        /\ build_error = "none"
        /\ PERIODS = <<>>
        /\ period_start_year = <<>>
        /\ vintage_costs_tab = <<>>
        /\ VNTS = <<>>
        /\ lifetime_yrs = <<>>
        /\ OPR_PRDS_BY_VINTAGE = <<>>
        /\ OPR_PRDS = <<>>
        /\ VNTS_OPR_IN_PRD = <<>>
        /\ Capacity = <<>>
        /\ capacity_type_operational_period_sets = <<>>
        /\ storage_only_capacity_type_operational_period_sets = <<>>
        /\ tx_capacity_type_operational_period_sets = <<>>
        /\ projects_tab = <<>>
        /\ spec_capacity_tab = {}
        /\ gen_ccs_new_vintage_costs_tab = <<>>
        /\ required_capacity_modules = <<>>
        /\ next_module = 0
        /\ model_sets = <<>>
        /\ PRJ_OPR_PRDS = <<>>
        /\ join_error = [type |-> "none"]
        /\ ccs_balance_production_components = <<>>
        /\ ccs_balance_consumption_components = <<>>
        /\ carbon_cap_balance_credit_components = <<>>
        /\ load_balance_production_components = <<>>
        /\ model_components = {}
        /\ Meet_CCS_Constraint = <<>>

NextLink ==
    \/ stor_H2_load_model_data
    \/ Construct_Stor_H2_Tracking_Constraint
    \/ stor_H2_export_results
    \/ run_next_subproblem

SpecLink == InitLink /\ [][NextLink]_vars

-----------------------------------------------------------------------------
(* Claims about the operational window of a vintage (SpecVintage) *)

WindowsBuilt == pc \in {"opr_prds", "vnts_in_prd", "capacity", "built"}

\* the periods p with start_year(v) <= start_year(p) < start_year(v) + L
StartYearWindow(v, L) ==
    {p \in Range(PERIODS) : /\ period_start_year[v] <= period_start_year[p]
                            /\ period_start_year[p] < period_start_year[v] + L}

LabelsAreStartYears == \A p \in Range(PERIODS) : period_start_year[p] = p

\* C1: for every vintage v that is a period and every lifetime L > 0, the
\* operational periods computed for (g, v) are exactly the periods p with
\* start_year(v) <= start_year(p) < start_year(v) + L, compared on the start
\* years of the periods.
C1_WindowByStartYear ==
    WindowsBuilt =>
        \A gv \in Range(VNTS) :
            (gv[2] \in Range(PERIODS) /\ lifetime_yrs[gv] > 0) =>
                Range(OPR_PRDS_BY_VINTAGE[gv]) = StartYearWindow(gv[2], lifetime_yrs[gv])

Scenario2020(gv) ==
    /\ PERIODS = <<2020, 2025, 2030, 2035, 2040>>
    /\ LabelsAreStartYears
    /\ gv[2] = 2020
    /\ lifetime_yrs[gv] = 10

\* C2 as stated: vintage 2020 with lifetime 10 over the periods 2020, 2025,
\* 2030, 2035, 2040 (start years equal to the labels) is operational in
\* 2020, 2025 and 2030.
C2_Window2020To2030 ==
    WindowsBuilt =>
        \A gv \in Range(VNTS) :
            Scenario2020(gv) => Range(OPR_PRDS_BY_VINTAGE[gv]) = {2020, 2025, 2030}

\* C2 as amended: vintage 2020 with lifetime 10 over the periods 2020, 2025,
\* 2030, 2035, 2040 (start years equal to the labels) is operational in
\* 2020 and 2025 only; 2030 = 2020 + 10 is outside the right-open window.
C2_Window2020To2025 ==
    WindowsBuilt =>
        \A gv \in Range(VNTS) :
            Scenario2020(gv) => OPR_PRDS_BY_VINTAGE[gv] = <<2020, 2025>>

C2_Witness ==
    /\ pc = "built"
    /\ module = "mass_new_lin"
    /\ \E gv \in Range(VNTS) : Scenario2020(gv)

\* C3: whatever the vintage and the periods, a lifetime of 0 years gives an
\* empty operational window: not even the vintage period is operational.
C3_ZeroLifetimeEmpty ==
    WindowsBuilt =>
        \A gv \in Range(VNTS) :
            lifetime_yrs[gv] = 0 => OPR_PRDS_BY_VINTAGE[gv] = <<>>

C3_Witness ==
    /\ pc = "built"
    /\ module = "mass_new_lin"
    /\ \E gv \in Range(VNTS) : lifetime_yrs[gv] = 0 /\ gv[2] \in Range(PERIODS)

\* C4: for a fixed vintage and fixed periods the window grows with the
\* lifetime: L1 <= L2 gives window(L1) a subset of window(L2).
C4_MonotonicInLifetime ==
    WindowsBuilt =>
        \A gv1, gv2 \in Range(VNTS) :
            (gv1[2] = gv2[2] /\ lifetime_yrs[gv1] <= lifetime_yrs[gv2]) =>
                Range(OPR_PRDS_BY_VINTAGE[gv1]) \subseteq Range(OPR_PRDS_BY_VINTAGE[gv2])

C4_Witness ==
    /\ pc = "built"
    /\ module = "mass_new_lin"
    /\ \E gv1, gv2 \in Range(VNTS) :
          /\ gv1[2] = gv2[2]
          /\ lifetime_yrs[gv1] < lifetime_yrs[gv2]
          /\ OPR_PRDS_BY_VINTAGE[gv1] # <<>>
          /\ Range(OPR_PRDS_BY_VINTAGE[gv1]) # Range(OPR_PRDS_BY_VINTAGE[gv2])

\* no period matches the row (name, vintage, lifetime) of the file
NoPeriodMatches(r) ==
    \A p \in Range(PERIODS) : ~(r[2] <= p /\ p < r[2] + r[3])

\* the build variable of (g, v) is in no capacity sum and in no cost sum
InNoSum(gv) ==
    /\ \A gp \in DOMAIN Capacity : gv \notin Range(Capacity[gp])
    /\ \A g \in Names, p \in Range(PERIODS) :
          /\ gv \notin Range(tx_capacity_cost_rule(g, p))
          /\ gv \notin Range(capacity_cost_rule(g, p))

\* the build went through and the pair contributes nothing
BuiltWithout(gv) ==
    /\ pc = "built"
    /\ build_error = "none"
    /\ \A p \in Range(PERIODS) : gv \notin Range(VNTS_OPR_IN_PRD[p])
    /\ InNoSum(gv)

C9_StableLexicographicOrder ==
    pc \in {"vnts_in_prd", "capacity", "built"} =>
        OPR_PRDS = Lexicographic(OperationalPairs(VNTS, OPR_PRDS_BY_VINTAGE))


-----------------------------------------------------------------------------
(* Claims about the join of the capacity types' sets (SpecJoin) *)

\* the start-year window of a vintage-costs row, over the modelled periods
RowWindow(r) ==
    {<<r[1], p>> : p \in {q \in Range(PERIODS) :
        /\ period_start_year[r[2]] <= period_start_year[q]
        /\ period_start_year[q] < period_start_year[r[2]] + r[3]}}

\* the (project, period) pairs that a capacity type contributes to the join
ContributionOf(m) ==
    CASE m = "dr_new" ->
            {<<projects_tab[i][1], p>> :
                i \in {j \in DOMAIN projects_tab : projects_tab[j][2] = "dr_new"},
                p \in Range(PERIODS)}
      [] m = "gen_ccs_spec" ->
            {r \in spec_capacity_tab :
                \E i \in DOMAIN projects_tab : projects_tab[i] = <<r[1], "gen_ccs_spec">>}
      [] m = "stor_ccs_new_lin" ->
            UNION {RowWindow(r) : r \in Range(vintage_costs_tab)}
      [] m = "gen_ccs_new" ->
            {<<r[1], r[2]>> : r \in Range(gen_ccs_new_vintage_costs_tab)}

JoinDone == pc \in {"joined", "conflict"}

Overlaps ==
    {pair \in Names \X Range(PERIODS) :
        \E i, j \in DOMAIN required_capacity_modules :
            /\ i # j
            /\ pair \in ContributionOf(required_capacity_modules[i])
            /\ pair \in ContributionOf(required_capacity_modules[j])}

NoPairTwice(relation) ==
    \A i, j \in DOMAIN relation : relation[i] = relation[j] => i = j

\* C6: when the sets registered by two capacity types hold the same
\* (project, period) pair, the construction stops with a conflict error that
\* names a project and a period both of them hold; the relation is not built,
\* and a relation that is built holds no pair twice.
C6_OverlapIsConflict ==
    JoinDone =>
        /\ Overlaps # {} =>
              /\ pc = "conflict"
              /\ join_error.type = "ConflictError"
              /\ <<join_error.project, join_error.period>> \in Overlaps
              /\ PRJ_OPR_PRDS = <<>>
        /\ pc = "joined" => NoPairTwice(PRJ_OPR_PRDS)

C6_Witness ==
    /\ pc = "conflict"
    /\ Range(required_capacity_modules) = {"dr_new", "stor_ccs_new_lin"}
    /\ join_error.type = "ConflictError"
    /\ <<join_error.project, join_error.period>> \in
          ContributionOf("dr_new") \cap ContributionOf("stor_ccs_new_lin")

\* C7: when the contributions of two capacity types share no pair, the joined
\* relation holds every pair of both and nothing else, and its size is the sum
\* of the sizes of the two contributions.
C7_DisjointUnionIsSum ==
    (JoinDone /\ Len(required_capacity_modules) = 2) =>
        LET S1 == ContributionOf(required_capacity_modules[1])
            S2 == ContributionOf(required_capacity_modules[2])
        IN S1 \cap S2 = {} =>
              /\ pc = "joined"
              /\ Range(PRJ_OPR_PRDS) = S1 \cup S2
              /\ Len(PRJ_OPR_PRDS) = Cardinality(S1) + Cardinality(S2)

\* the two contributions are for the same project and both are non-empty
C7_Witness ==
    /\ pc = "joined"
    /\ Range(required_capacity_modules) = {"stor_ccs_new_lin", "gen_ccs_spec"}
    /\ \E a \in ContributionOf("stor_ccs_new_lin"), b \in ContributionOf("gen_ccs_spec") :
          a[1] = b[1]
    /\ Len(PRJ_OPR_PRDS) >= 2

\* C8: the joined relation is the union of the contributions of the set of
\* capacity types that registered, whatever the order of their registration.
C8_OrderIndependentUnion ==
    pc = "joined" =>
        Range(PRJ_OPR_PRDS) =
            UNION {ContributionOf(m) : m \in Range(required_capacity_modules)}

\* gen_ccs_new registered before dr_new, both with pairs in the relation
C8_Witness ==
    /\ pc = "joined"
    /\ required_capacity_modules = <<"gen_ccs_new", "dr_new">>
    /\ ContributionOf("gen_ccs_new") # {}
    /\ ContributionOf("dr_new") # {}
    /\ Len(PRJ_OPR_PRDS) = Cardinality(ContributionOf("gen_ccs_new"))
                            + Cardinality(ContributionOf("dr_new"))

\* the same two capacity types registered in the other order
C8_WitnessReversed ==
    /\ pc = "joined"
    /\ required_capacity_modules = <<"dr_new", "gen_ccs_new">>
    /\ ContributionOf("gen_ccs_new") # {}
    /\ ContributionOf("dr_new") # {}

-----------------------------------------------------------------------------
(* Claims about the dynamic-component registries (SpecRegistry) *)

NoNameTwice(list) ==
    \A i, j \in DOMAIN list : list[i] = list[j] => i = j

\* C10: a name that a registry list already holds is not registered again (the
\* attempt is a configuration error), so no registry list ever holds the same
\* name twice.
C10_NoNameRegisteredTwice ==
    /\ NoNameTwice(ccs_balance_production_components)
    /\ NoNameTwice(ccs_balance_consumption_components)
    /\ NoNameTwice(carbon_cap_balance_credit_components)
    /\ NoNameTwice(load_balance_production_components)

ConstraintBuilt == Meet_CCS_Constraint # <<>>

AppendedOneOrNone(list, list_after) ==
    \/ list_after = list
    \/ /\ Len(list_after) = Len(list) + 1
       /\ SubSeq(list_after, 1, Len(list)) = list

CcsListsChange ==
    \/ ccs_balance_production_components' # ccs_balance_production_components
    \/ ccs_balance_consumption_components' # ccs_balance_consumption_components

CreditListChanges ==
    carbon_cap_balance_credit_components' # carbon_cap_balance_credit_components

LoadListChanges ==
    load_balance_production_components' # load_balance_production_components

\* C12: in every step of the build each registry list is left as it is or
\* gets one name at its end, its earlier entries in place; a registration of
\* one module leaves the registries of the other modules unchanged; and the
\* step that evaluates the rule of the balance constraint changes no list.
C12_AppendOnlyThenReadOnly ==
    [][ /\ AppendedOneOrNone(ccs_balance_production_components,
                             ccs_balance_production_components')
        /\ AppendedOneOrNone(ccs_balance_consumption_components,
                             ccs_balance_consumption_components')
        /\ AppendedOneOrNone(carbon_cap_balance_credit_components,
                             carbon_cap_balance_credit_components')
        /\ AppendedOneOrNone(load_balance_production_components,
                             load_balance_production_components')
        /\ ~(CcsListsChange /\ CreditListChanges)
        /\ ~(CcsListsChange /\ LoadListChanges)
        /\ ~(CreditListChanges /\ LoadListChanges)
        /\ (Meet_CCS_Constraint' # Meet_CCS_Constraint) =>
              ~(CcsListsChange \/ CreditListChanges \/ LoadListChanges)
      ]_vars

\* the rule was evaluated over lists that every module had appended to
C12_Witness ==
    /\ pc = "instance"
    /\ ConstraintBuilt
    /\ ccs_balance_production_components # <<>>
    /\ carbon_cap_balance_credit_components # <<>>
    /\ load_balance_production_components # <<>>

\* C13: the balance constraint equates the sum over exactly the names of the
\* production registry with the sum over exactly the names of the
\* consumption registry, each name counted once.
C13_ExactlyTheRegisteredNamesOnce ==
    ConstraintBuilt =>
        /\ Range(Meet_CCS_Constraint.lhs) = Range(ccs_balance_production_components)
        /\ Range(Meet_CCS_Constraint.rhs) = Range(ccs_balance_consumption_components)
        /\ NoNameTwice(Meet_CCS_Constraint.lhs)
        /\ NoNameTwice(Meet_CCS_Constraint.rhs)

-----------------------------------------------------------------------------
(* Claims about the tracking constraint and the linked state (SpecLink) *)

FirstWith(tmp, boundary_type) ==
    /\ tmp = first_hrz_tmp(horizon[tmp])
    /\ boundary[horizon[tmp]] = boundary_type

\* load_model_data of the subproblem goes through
LoadPasses ==
    \/ linked_inputs_filename \notin DOMAIN files
    \/ "STOR_LINKED_TMPS" \in model_attributes /\ files[linked_inputs_filename] = <<>>

\* the construction of the tracking constraint was reached, and went through
\* or raised
ConstructionOver ==
    \/ pc \in {"solved", "exported"}
    \/ pc = "failed" /\ LoadPasses

TrackingBuilt == Stor_H2_Tracking_Constraint # <<>>

\* C14: the tracking constraint of (s, tmp) is skipped when tmp is the first
\* timepoint of a horizon with a linear boundary, and is generated for every
\* other (s, tmp).
C14_SkippedOnlyAtLinearStart ==
    ConstructionOver =>
        /\ TrackingBuilt
        /\ \A st \in STOR_H2_OPR_TMPS :
              IF FirstWith(st[2], "linear")
              THEN Stor_H2_Tracking_Constraint[st].type = "Skip"
              ELSE Stor_H2_Tracking_Constraint[st].type = "Constraint"

\* the timepoint before tmp in its horizon, the last one for the first
SameSolvePrevious(tmp) ==
    IF tmp = first_hrz_tmp(horizon[tmp]) THEN last_hrz_tmp(horizon[tmp]) ELSE tmp - 1

\* C15: for a timepoint that is not the first of its horizon, and for the
\* first timepoint of a circular horizon, the previous state, charge and
\* discharge of the tracking constraint are the decision variables of the
\* same model at the previous timepoint (for circular: the last timepoint of
\* the horizon), and no linked param.
C15_PreviousStateFromSameSolve ==
    TrackingBuilt =>
        \A st \in STOR_H2_OPR_TMPS :
            (st[2] # first_hrz_tmp(horizon[st[2]]) \/ FirstWith(st[2], "circular")) =>
                LET c == Stor_H2_Tracking_Constraint[st]
                    prev == SameSolvePrevious(st[2])
                IN /\ c.type = "Constraint"
                   /\ c.prev_tmp_starting_energy_in_storage =
                         <<"Stor_Starting_H2_in_Storage_MWh", st[1], prev>>
                   /\ c.prev_tmp_charge = <<"Stor_H2_Charge_MW", st[1], prev>>
                   /\ c.prev_tmp_discharge = <<"Stor_H2_Discharge_MW", st[1], prev>>

\* a circular horizon of at least two timepoints: its first timepoint takes
\* the last, the others the one before
C15_Witness ==
    /\ pc = "exported"
    /\ TrackingBuilt
    /\ \E tmp \in TMPS :
          /\ FirstWith(tmp, "circular")
          /\ last_hrz_tmp(horizon[tmp]) > tmp
          /\ Stor_H2_Tracking_Constraint[<<"S", tmp>>].prev_tmp_charge =
                <<"Stor_H2_Charge_MW", "S", last_hrz_tmp(horizon[tmp])>>

\* subproblem 1 exported linked state for the subproblem being built
LinkedFromPrevious ==
    /\ subproblem = 2
    /\ InputsFile(2, "gen_H2_linked_timepoint_params.tab") \in DOMAIN files

\* C16: when subproblem 2 is linked to subproblem 1, the build of subproblem
\* 2 goes through and the tracking constraint of the first timepoint of a
\* linked horizon takes the previous state from the linked record.
C16_LinkedStateIsUsed ==
    (LinkedFromPrevious /\ pc \in {"solved", "exported", "failed"}) =>
        \A st \in STOR_H2_OPR_TMPS :
            FirstWith(st[2], "linked") =>
                /\ TrackingBuilt
                /\ Stor_H2_Tracking_Constraint[st].type = "Constraint"
                /\ Stor_H2_Tracking_Constraint[st].prev_tmp_starting_energy_in_storage =
                      <<"stor_linked_starting_H2_in_storage", st[1], 0>>

\* C17: when a horizon is linked and the linked file is absent, the build
\* does not fail and the tracking constraint of the first timepoint of the
\* horizon is skipped.
C17_AbsentLinkedFileSkips ==
    (ConstructionOver /\ linked_inputs_filename \notin DOMAIN files) =>
        \A st \in STOR_H2_OPR_TMPS :
            FirstWith(st[2], "linked") =>
                /\ pc # "failed"
                /\ TrackingBuilt
                /\ Stor_H2_Tracking_Constraint[st].type = "Skip"

\* the inputs files that a step creates or changes
InputsWritten ==
    {f \in DOMAIN files' : /\ f[2] = "inputs"
                           /\ (f \notin DOMAIN files \/ files'[f] # files[f])}

\* C18: the export of subproblem k writes inputs of subproblem k + 1 only,
\* a row only for a timepoint to link, and each row under the linked
\* timepoint that the map gives for its timepoint.
C18_ExportWritesNextInputsOnly ==
    [][pc = "solved" =>
          \A f \in InputsWritten :
              /\ f[1] = subproblem + 1
              /\ \A i \in DOMAIN files'[f] :
                    LET row == files'[f][i]
                    IN /\ row.linked_charge[3] \in tmps_to_link
                       /\ row.linked_timepoint = tmp_linked_tmp_dict[row.linked_charge[3]]
                       /\ row.linked_timepoint # row.linked_charge[3]
      ]_vars

\* rows were written for the last timepoint and none for the one before it
C18_Witness ==
    /\ pc = "exported"
    /\ subproblem = 1
    /\ Cardinality(TMPS) >= 2
    /\ tmps_to_link = {Cardinality(TMPS)}
    /\ InputsFile(2, "gen_H2_linked_timepoint_params.tab") \in DOMAIN files
    /\ Len(files[InputsFile(2, "gen_H2_linked_timepoint_params.tab")]) = 1

\* C19: the linked file of the next subproblem is written if and only if
\* there are timepoints to link; with none, the export creates or changes no
\* file in the inputs of the next subproblem.
C19_LinkedFileIffTmpsToLink ==
    [][pc = "solved" =>
          /\ (tmps_to_link # {}) <=> (next_subproblem_filename \in InputsWritten)
          /\ (tmps_to_link = {}) => InputsWritten = {}
      ]_vars

\* an export with no timepoint to link, which left the inputs alone
C19_Witness ==
    /\ pc = "exported"
    /\ subproblem = 1
    /\ tmps_to_link = {}
    /\ ResultsFile(1, "dispatch_stor_H2.csv") \in DOMAIN files
    /\ \A f \in DOMAIN files : f[2] = "inputs" => f[3] = "stor_H2_linked_timepoint_params.tab"

\* C20: the linked state that the export of subproblem k writes is what the
\* build of subproblem k + 1 reads: the same file, with a record for each
\* linked (project, timepoint) of the type.
C20_ExportedIsWhatIsRead ==
    (pc = "exported" /\ tmps_to_link # {}) =>
        LET read == InputsFile(subproblem + 1, "stor_H2_linked_timepoint_params.tab")
        IN /\ read \in DOMAIN files
           /\ \A s \in STOR_H2, tmp \in tmps_to_link :
                 \E i \in DOMAIN files[read] :
                     /\ files[read][i].project = s
                     /\ files[read][i].linked_timepoint = tmp_linked_tmp_dict[tmp]

-----------------------------------------------------------------------------
(* Claims about the contribution of gen_ccs_new (SpecJoin) *)

SetsLoaded == pc \in {"join", "joined", "conflict"}

\* the pairs of the sets that gen_ccs_new registered for the join
GenCcsNewRegistered ==
    UNION {model_sets[name] :
              name \in Range(capacity_type_operational_period_sets)
                         \cap {"GEN_CCS_NEW_VNTS"}}

\* C21: the set that gen_ccs_new contributes to the join is the union, over
\* its (project, vintage) pairs, of the operational window of the vintage:
\* (g, p) for every period p in which some vintage of g is operational,
\* whether or not p is a vintage of g.
C21_GenCcsNewContributesWindows ==
    (SetsLoaded /\ "gen_ccs_new" \in Range(required_capacity_modules)) =>
        GenCcsNewRegistered =
            UNION {RowWindow(r) : r \in Range(gen_ccs_new_vintage_costs_tab)}

-----------------------------------------------------------------------------
(* Claims about the derived sets and the capacity sum (SpecVintage) *)

\* the vintages of g whose derived operational window holds p
VintagesOperationalIn(g, p) ==
    {gv \in Range(VNTS) : gv[1] = g /\ p \in Range(OPR_PRDS_BY_VINTAGE[gv])}

\* C27: for every g and period p, the capacity expression of (g, p) is the
\* sum of the build variables of exactly the vintages of g whose operational
\* window holds p, each once; for a period that no window of g holds, no
\* capacity is defined.
C27_CapacitySumsOperationalVintages ==
    pc = "built" =>
        \A g \in Names, p \in Range(PERIODS) :
            IF VintagesOperationalIn(g, p) = {}
            THEN <<g, p>> \notin DOMAIN Capacity
            ELSE /\ <<g, p>> \in DOMAIN Capacity
                 /\ Range(Capacity[<<g, p>>]) = VintagesOperationalIn(g, p)
                 /\ Len(Capacity[<<g, p>>]) = Cardinality(VintagesOperationalIn(g, p))

\* two vintages of A, one period apart, with a lifetime of two periods: the
\* first period takes the first build, the second both, the third the
\* second build, and the fourth has no capacity
C27_Witness ==
    /\ pc = "built"
    /\ module = "mass_new_lin"
    /\ PERIODS = <<2020, 2025, 2030, 2035>>
    /\ <<"A", 2020>> \in DOMAIN Capacity
    /\ Capacity[<<"A", 2020>>] = <<<<"A", 2020>>>>
    /\ <<"A", 2025>> \in DOMAIN Capacity
    /\ Range(Capacity[<<"A", 2025>>]) = {<<"A", 2020>>, <<"A", 2025>>}
    /\ <<"A", 2030>> \in DOMAIN Capacity
    /\ Capacity[<<"A", 2030>>] = <<<<"A", 2025>>>>
    /\ <<"A", 2035>> \notin DOMAIN Capacity

\* C30: the three derived sets agree for every input: (g, v) is in the
\* vintages operational in p exactly when p is in the window of (g, v);
\* (g, p) is in the operational-period relation exactly when some vintage
\* of g has p in its window; and the relation holds no pair twice.
C30_DerivedSetsAgree ==
    pc = "built" =>
        /\ \A p \in Range(PERIODS), gv \in Range(VNTS) :
              gv \in Range(VNTS_OPR_IN_PRD[p]) <=> p \in Range(OPR_PRDS_BY_VINTAGE[gv])
        /\ \A g \in Names, p \in Labels :
              <<g, p>> \in Range(OPR_PRDS) <=> VintagesOperationalIn(g, p) # {}
        /\ NoPairTwice(OPR_PRDS)

\* two vintages with overlapping windows, and one with an empty window
C30_Witness ==
    /\ pc = "built"
    /\ \E gv1, gv2 \in Range(VNTS) :
          /\ gv1 # gv2
          /\ gv1[1] = gv2[1]
          /\ Range(OPR_PRDS_BY_VINTAGE[gv1]) \cap Range(OPR_PRDS_BY_VINTAGE[gv2]) # {}
          /\ Len(OPR_PRDS) < Len(OPR_PRDS_BY_VINTAGE[gv1]) + Len(OPR_PRDS_BY_VINTAGE[gv2])

-----------------------------------------------------------------------------
(* Claim about the tracking equation (SpecLink) *)

\* C28: a tracking constraint that is generated for (s, tmp) states that the
\* starting energy at tmp is the previous starting energy, plus the previous
\* charge times the hours of the previous timepoint times the charging
\* efficiency, minus the previous discharge times the hours of the previous
\* timepoint over the discharging efficiency, with no other multiplier: the
\* weight of the previous timepoint is no factor.
C28_TrackingEquationWithoutWeight ==
    TrackingBuilt =>
        \A st \in STOR_H2_OPR_TMPS :
            LET c == Stor_H2_Tracking_Constraint[st]
            IN c.type = "Constraint" =>
                  /\ c.starting_energy_in_storage =
                        <<"Stor_Starting_H2_in_Storage_MWh", st[1], st[2]>>
                  /\ c.charge_times = {c.prev_tmp_hrs_in_tmp,
                                       <<"stor_H2_charging_efficiency", st[1]>>}
                  /\ c.discharge_times = {c.prev_tmp_hrs_in_tmp}
                  /\ c.discharge_over = {<<"stor_H2_discharging_efficiency", st[1]>>}

-----------------------------------------------------------------------------
(* Claim about the headroom and footroom registries (SpecReserves) *)

\* the list of the project in the dictionary, as it is after the step
ListAfter(dictionary, r) == list_contents'[dictionary[r]]

\* C26: after determine_dynamic_components the headroom and the footroom
\* registry each have exactly the projects of projects.tab as keys, every
\* value is an empty list, and the lists are independent objects: a reserve
\* variable name appended to the headroom list of one project changes the
\* list of no other project and no footroom list (and the same for a name
\* appended to a footroom list).
C26_RegistriesOfIndependentLists ==
    [][ /\ (pc = "start" /\ pc' = "declare") =>
              /\ DOMAIN headroom_variables' = {projects_tab[i][1] : i \in DOMAIN projects_tab}
              /\ DOMAIN footroom_variables' = DOMAIN headroom_variables'
              /\ \A r \in DOMAIN headroom_variables' :
                    /\ list_contents'[headroom_variables'[r]] = <<>>
                    /\ list_contents'[footroom_variables'[r]] = <<>>
        /\ (pc = "declare" /\ pc' = "lf_reserves_up") =>
              \A r \in DOMAIN headroom_variables :
                  /\ ListAfter(footroom_variables, r) = list_contents[footroom_variables[r]]
                  /\ ListAfter(headroom_variables, r) =
                        IF projects_tab_ba["lf_reserves_up_ba"][r] = "."
                        THEN list_contents[headroom_variables[r]]
                        ELSE Append(list_contents[headroom_variables[r]],
                                    "Provide_LF_Reserves_Up_MW")
        /\ (pc = "lf_reserves_up" /\ pc' = "lf_reserves_down") =>
              \A r \in DOMAIN footroom_variables :
                  /\ ListAfter(headroom_variables, r) = list_contents[headroom_variables[r]]
                  /\ ListAfter(footroom_variables, r) =
                        IF projects_tab_ba["lf_reserves_down_ba"][r] = "."
                        THEN list_contents[footroom_variables[r]]
                        ELSE Append(list_contents[footroom_variables[r]],
                                    "Provide_LF_Reserves_Down_MW")
      ]_vars

\* of two projects one provides the upward reserve only and the other the
\* downward reserve only
C26_Witness ==
    /\ pc = "lf_reserves_down"
    /\ DOMAIN headroom_variables = {"A", "B"}
    /\ list_contents[headroom_variables["A"]] = <<"Provide_LF_Reserves_Up_MW">>
    /\ list_contents[footroom_variables["A"]] = <<>>
    /\ list_contents[headroom_variables["B"]] = <<>>
    /\ list_contents[footroom_variables["B"]] = <<"Provide_LF_Reserves_Down_MW">>

-----------------------------------------------------------------------------
(* Claim about the power production of the load zones (SpecPower) *)

\* how many times the sequence holds the element
Count(seq, e) == Cardinality({i \in DOMAIN seq : seq[i] = e})

\* C29: in every timepoint the power provision of every operational project
\* is a term of the production of exactly one load zone, the zone of the
\* project, and is there once, so that the productions of the zones add up
\* to the provisions of the operational projects; and the name of the
\* production is in the load-balance production registry once.
C29_ProvisionCountedInOwnZoneOnce ==
    pc = "instance" =>
        /\ \A tmp \in TIMEPOINTS, g \in Names, z \in LOAD_ZONES :
              Count(Power_Production_in_Zone_MW[<<z, tmp>>],
                    <<"Power_Provision_MW", g, tmp>>) =
                  IF g \in Range(OPERATIONAL_PROJECTS_IN_TIMEPOINT[tmp]) /\ z = load_zone[g]
                  THEN 1 ELSE 0
        /\ \A zt \in LOAD_ZONES \X TIMEPOINTS :
              \A i \in DOMAIN Power_Production_in_Zone_MW[zt] :
                  Power_Production_in_Zone_MW[zt][i][3] = zt[2]
        /\ Count(load_balance_production_components, "Power_Production_in_Zone_MW") = 1

\* two projects of different zones, both operational in a timepoint
C29_Witness ==
    /\ pc = "instance"
    /\ load_zone["A"] # load_zone["B"]
    /\ \E tmp \in TIMEPOINTS :
          /\ Range(OPERATIONAL_PROJECTS_IN_TIMEPOINT[tmp]) = {"A", "B"}
          /\ Power_Production_in_Zone_MW[<<load_zone["A"], tmp>>] =
                <<<<"Power_Provision_MW", "A", tmp>>>>
          /\ Power_Production_in_Zone_MW[<<load_zone["B"], tmp>>] =
                <<<<"Power_Provision_MW", "B", tmp>>>>

-----------------------------------------------------------------------------
(* Claims about the dr_new capacity type (SpecDrNew) *)

\* the cumulative new build of g through p under the solution
CumulativeBuild(g, p) ==
    SumSeq([i \in DOMAIN SelectSeq(PERIODS, LAMBDA q : q <= p) |->
               DRNew_Build_MWh[<<g, SelectSeq(PERIODS, LAMBDA q : q <= p)[i]>>]])

\* C22: for every dr_new project g and period p the power capacity is the
\* total (cumulative) energy capacity of (g, p) over the minimum duration of
\* g: power capacity times duration is the energy capacity.
C22_PowerIsEnergyOverDuration ==
    pc = "solved" =>
        \A gp \in DR_NEW_OPR_PRDS :
            /\ DRNew_Power_Capacity_MW[gp].denominator = dr_new_min_duration[gp[1]]
            /\ DRNewValue(DRNew_Power_Capacity_MW[gp].numerator, DRNew_Build_MWh) =
                  DRNewValue(dr_new_energy_capacity_rule(gp[1], gp[2]), DRNew_Build_MWh)

\* C23: in every solution that holds the constraints of the module, the
\* cumulative new build of g through p is at least
\* dr_new_min_cumulative_new_build_mwh[g, p] and at most
\* dr_new_max_cumulative_new_build_mwh[g, p].
C23_CumulativeBuildWithinPotential ==
    pc = "solved" =>
        \A gp \in DR_NEW_OPR_PRDS :
            /\ CumulativeBuild(gp[1], gp[2]) >= dr_new_min_cumulative_new_build_mwh[gp]
            /\ CumulativeBuild(gp[1], gp[2]) <= dr_new_max_cumulative_new_build_mwh[gp]

-----------------------------------------------------------------------------
(* Claims about the startup fuel burn and the commitment of gen_commit_cap_H2 *)

\* the construction of fuel_burn's expressions is over
FuelBurnOver == module = "fuel_burn" /\ pc \in {"solve", "solved", "failed"}

\* the rule of gen_commit_cap_H2 finds the variable it reads, or is not called
OwnRulesPass ==
    GEN_COMMIT_CAP_H2 = {} \/ "GenCommitCap_Startup_MW" \in model_attributes

\* C24: once fuel_burn has constructed its expressions, and unless the rule of
\* a gen_commit_cap_H2 project raised, the build has not failed,
\* Startup_Fuel_Burn_MMBtu has an entry for every operational
\* (project, timepoint), and the entry of a project whose operational type
\* defines no startup_fuel_burn_rule is zero
C24_StartupFuelBurnZeroWithoutRule ==
    FuelBurnOver /\ OwnRulesPass =>
        /\ build_error = "none"
        /\ DOMAIN Startup_Fuel_Burn_MMBtu = PRJ_OPR_TMPS
        /\ \A g_tmp \in PRJ_OPR_TMPS :
               operational_type[g_tmp[1]] \notin ModulesWithStartupFuelBurnRule
                   => Startup_Fuel_Burn_MMBtu[g_tmp] = 0

\* C25: every level of Commit_Capacity_H2_MW[g, tmp] that satisfies the
\* commitment constraint of (g, tmp) is at most Capacity_MW of the project
\* times Availability_Derate[g, tmp]
C25_CommitmentWithinDeratedCapacity ==
    \A g_tmp \in DOMAIN Commit_Capacity_H2_Constraint :
        \A level \in 0..MaxCapacity :
            Satisfies(Commit_Capacity_H2_Constraint[g_tmp], level)
                => level * 100
                       <= Capacity_MW[g_tmp[1]] * Availability_Derate[g_tmp]

====
